---- MODULE Spec2Model ----
(***************************************************************************)
(* Model of the execution engine of casper-node:                           *)
(*   execution_engine/src/core/engine_state/mod.rs                         *)
(* EngineState owns a state provider (a versioned store of roots plus a    *)
(* protocol-data table).  The public operations are actions; the deploy    *)
(* and transfer paths are operators that compute the ExecutionResult the   *)
(* code returns, phase by phase, on tracking copies.                       *)
(***************************************************************************)
EXTENDS Integers, Sequences, FiniteSets, TLC

VARIABLES roots, protocol_data, last, in_flight

vars == <<roots, protocol_data, last, in_flight>>

(***************************************************************************)
(* Bounds of the model.  Motes and gas are scaled down: the source sets    *)
(* MAX_PAYMENT to 2_500_000_000 * CONV_RATE; the model keeps the order     *)
(* relations (fee < MAX_PAYMENT < rich balance) on small numbers.          *)
(***************************************************************************)
CONV_RATE == 1

MAX_PAYMENT == 3 * CONV_RATE

MaxRoots == 1

MaxDeploys == 2

\* Gas the executor reports for one call of a system contract.
SystemCallGas == 1

Accounts == {"A", "B", "C", "P"}

SYSTEM_ACCOUNT_ADDR == "SYS"

POS_PAYMENT_PURSE == "pay"

Purses == Accounts \cup {POS_PAYMENT_PURSE}

DeployHashes == {"h1"}

Versions == {1, 2}

GenesisVersions == {1}

Contracts == {"mint", "pos", "auction"}

\* Named keys of the auction and mint contracts that commit_upgrade rewrites.
VALIDATOR_SLOTS_KEY == "validator_slots"

AUCTION_DELAY_KEY == "auction_delay"

LOCKED_FUNDS_PERIOD_KEY == "locked_funds_period"

UNBONDING_DELAY_KEY == "unbonding_delay"

ROUND_SEIGNIORAGE_RATE_KEY == "round_seigniorage_rate"

AuctionConfigKeys ==
    {VALIDATOR_SLOTS_KEY, AUCTION_DELAY_KEY, LOCKED_FUNDS_PERIOD_KEY,
     UNBONDING_DELAY_KEY}

ConfigKeys == AuctionConfigKeys \cup {ROUND_SEIGNIORAGE_RATE_KEY}

Validators == {"v1", "v2"}

\* Eras the auction keeps validators for.
MaxEra == 3

EraIds == 0..MaxEra

(***************************************************************************)
(* Keys, stored values and transforms.                                     *)
(***************************************************************************)
KAccount(a) == <<"Account", a>>

KBalance(p) == <<"Balance", p>>

KDeployInfo(h) == <<"DeployInfo", h>>

KHash(c) == <<"Hash", c>>

KData == <<"URef", "X">>

\* The URef a named key of a system contract points to.
KNamed(name) == <<"Named", name>>

KBids == <<"Named", "bids">>

KEraValidators == <<"Named", "era_validators">>

Keys ==
    {KAccount(a) : a \in Accounts} \cup {KBalance(p) : p \in Purses}
        \cup {KDeployInfo(h) : h \in DeployHashes}
        \cup {KHash(c) : c \in Contracts} \cup {KData}
        \cup {KNamed(n) : n \in ConfigKeys} \cup {KBids, KEraValidators}

NoValue == [k |-> "none"]

U512(n) == [k |-> "U512", n |-> n]

AccountValue(purse, weights, threshold) ==
    [k |-> "Account", main_purse |-> purse, associated_keys |-> weights,
     deployment |-> threshold]

ContractValue == [k |-> "Contract"]

\* A contract with the given named keys.
ContractWith(named_keys) == [k |-> "Contract", named_keys |-> named_keys]

\* The bids of the auction: the stake of every validator.
BidsValue(stake) == [k |-> "Bids", stake |-> stake]

NoEra == [known |-> FALSE]

Era(validators) == [known |-> TRUE, validators |-> validators]

\* The era validators of the auction: the current era and the validators of
\* the eras computed so far.
ErasValue(era_id, eras) == [k |-> "Eras", era_id |-> era_id, eras |-> eras]

DeployInfoValue(h, transfers, from, source, cost) ==
    [k |-> "DeployInfo", deploy_hash |-> h, transfers |-> transfers,
     from |-> from, source |-> source, gas |-> cost]

Identity == [t |-> "Identity"]

Write(v) == [t |-> "Write", v |-> v]

AddUInt512(n) == [t |-> "AddUInt512", n |-> n]

TFailure == [t |-> "Failure"]

\* Transform applied to a stored value (commit of one key).
ApplyTransform(tr, v) ==
    CASE tr.t = "Identity" -> v
      [] tr.t = "Write" -> tr.v
      [] tr.t = "AddUInt512" ->
            IF v.k = "U512" THEN U512(v.n + tr.n) ELSE [k |-> "mismatch"]
      [] OTHER -> [k |-> "mismatch"]

\* Transform + Transform of the additive map: a then b on the same key.
AddTransform(a, b) ==
    CASE a.t = "Failure" -> a
      [] b.t = "Failure" -> b
      [] b.t = "Identity" -> a
      [] b.t = "Write" -> b
      [] a.t = "Identity" -> b
      [] a.t = "Write" ->
            IF a.v.k = "U512" THEN Write(U512(a.v.n + b.n)) ELSE TFailure
      [] OTHER -> AddUInt512(a.n + b.n)

EmptyEffect == [k \in Keys |-> Identity]

\* AdditiveMap insertion of every entry of e2 into e1.
AddEffects(e1, e2) == [k \in Keys |-> AddTransform(e1[k], e2[k])]

EmptyState == [k \in Keys |-> NoValue]

\* StateProvider::commit on an existing root: every transform applied to its key.
Commit(state, effect) == [k \in Keys |-> ApplyTransform(effect[k], state[k])]

CommitFails(state, effect) ==
    \E k \in Keys :
        effect[k].t = "Failure" \/ ApplyTransform(effect[k], state[k]).k = "mismatch"

(***************************************************************************)
(* Tracking copy: a reader over one root plus the log of transforms made   *)
(* through it.  A fork reads through its parent and starts an empty log.   *)
(***************************************************************************)
TrackingCopyNew(state) == [reader |-> state, log |-> EmptyEffect]

TCRead(tc, k) == ApplyTransform(tc.log[k], tc.reader[k])

TCWrite(tc, k, v) == [tc EXCEPT !.log[k] = Write(v)]

TCAdd(tc, k, n) == [tc EXCEPT !.log[k] = AddTransform(@, AddUInt512(n))]

TCFork(tc) == [reader |-> [k \in Keys |-> TCRead(tc, k)], log |-> EmptyEffect]

TCEffect(tc) == tc.log

\* Mutant: the fork shares its log with the parent, so what is written
\* through the fork is read through the parent.
parent_after_fork_Shared(parent, child) ==
    [parent EXCEPT !.log = AddEffects(parent.log, child.log)]

\* The parent of a fork after the fork was written to: the fork has a log of
\* its own, the parent's reader and log are not touched.
parent_after_fork(parent, child) == parent

\* The keys that read differently through the parent once its fork has been
\* written to.
ChangedByFork(parent, child) ==
    {k \in Keys : TCRead(parent_after_fork(parent, child), k) # TCRead(parent, k)}

\* TrackingCopyExt::get_purse_balance: the U512 under the balance key, if any.
HasBalance(tc, p) == TCRead(tc, KBalance(p)).k = "U512"

Balance(tc, p) == TCRead(tc, KBalance(p)).n

(***************************************************************************)
(* Execution results.                                                      *)
(***************************************************************************)
Success(effect, transfers, cost) ==
    [tag |-> "Success", error |-> "none", effect |-> effect,
     transfers |-> transfers, cost |-> cost]

Failure(error, effect, transfers, cost) ==
    [tag |-> "Failure", error |-> error, effect |-> effect,
     transfers |-> transfers, cost |-> cost]

precondition_failure(error) == Failure(error, EmptyEffect, <<>>, 0)

Min(a, b) == IF a < b THEN a ELSE b

(***************************************************************************)
(* Accounts and authorization.                                             *)
(***************************************************************************)
AuthKeys == {"K1", "K2", "Z"}

Weight(account, key) ==
    IF key \in DOMAIN account.associated_keys THEN account.associated_keys[key] ELSE 0

RECURSIVE SumWeights(_, _)
SumWeights(account, keys) ==
    IF keys = {} THEN 0
    ELSE LET key == CHOOSE x \in keys : TRUE
         IN  Weight(account, key) + SumWeights(account, keys \ {key})

\* Account::can_authorize: a non-empty set of keys, each associated to the account.
can_authorize(account, keys) ==
    keys # {} /\ \A key \in keys : key \in DOMAIN account.associated_keys

\* Account::can_deploy_with: the total weight meets the deployment threshold.
can_deploy_with(account, keys) == SumWeights(account, keys) >= account.deployment

\* Mutant: the weight of the keys is not checked against the threshold.
get_authorized_account_NoThreshold(tc, account_hash, authorization_keys) ==
    LET stored == TCRead(tc, KAccount(account_hash))
    IN  IF stored.k # "Account" THEN [ok |-> FALSE, error |-> "Authorization"]
        ELSE IF ~can_authorize(stored, authorization_keys)
        THEN [ok |-> FALSE, error |-> "Authorization"]
        ELSE [ok |-> TRUE, account |-> stored]

\* EngineState::get_authorized_account: [ok, account] or [ok, error].
get_authorized_account(tc, account_hash, authorization_keys) ==
    LET stored == TCRead(tc, KAccount(account_hash))
    IN  IF stored.k # "Account" THEN [ok |-> FALSE, error |-> "Authorization"]
        ELSE IF ~can_authorize(stored, authorization_keys)
        THEN [ok |-> FALSE, error |-> "Authorization"]
        ELSE IF ~can_deploy_with(stored, authorization_keys)
        THEN [ok |-> FALSE, error |-> "DeploymentAuthorizationFailure"]
        ELSE [ok |-> TRUE, account |-> stored]

(***************************************************************************)
(* System contracts, run on a tracking copy.  Each returns the tracking    *)
(* copy after the call and whether the call succeeded.                     *)
(***************************************************************************)
\* Mint transfer(from, to, amount): write the source balance, add to the target.
MintTransfer(tc, from, to, amount) ==
    IF ~HasBalance(tc, from) THEN [ok |-> FALSE, error |-> "SourceNotFound", tc |-> tc]
    ELSE IF ~HasBalance(tc, to) THEN [ok |-> FALSE, error |-> "DestNotFound", tc |-> tc]
    ELSE IF Balance(tc, from) < amount
    THEN [ok |-> FALSE, error |-> "InsufficientFunds", tc |-> tc]
    ELSE [ok |-> TRUE, error |-> "none",
          tc |-> TCAdd(TCWrite(tc, KBalance(from), U512(Balance(tc, from) - amount)),
                       KBalance(to), amount)]

\* Mutant: finalize_payment pays the target and leaves the rest in the
\* payment purse.
FinalizePayment_NoRefund(tc, amount, account, target) ==
    IF ~HasBalance(tc, POS_PAYMENT_PURSE) \/ Balance(tc, POS_PAYMENT_PURSE) < amount
    THEN [ok |-> FALSE, tc |-> tc]
    ELSE LET paid == MintTransfer(tc, POS_PAYMENT_PURSE, target, amount)
         IN  [ok |-> paid.ok, tc |-> IF paid.ok THEN paid.tc ELSE tc]

\* Proof of stake finalize_payment(amount, account, target): pay the target
\* from the payment purse and refund what is left to the account.
FinalizePayment(tc, amount, account, target) ==
    IF ~HasBalance(tc, POS_PAYMENT_PURSE) \/ Balance(tc, POS_PAYMENT_PURSE) < amount
    THEN [ok |-> FALSE, tc |-> tc]
    ELSE LET refund == Balance(tc, POS_PAYMENT_PURSE) - amount
             paid == MintTransfer(tc, POS_PAYMENT_PURSE, target, amount)
             owner == TCRead(tc, KAccount(account))
         IN  IF ~paid.ok THEN [ok |-> FALSE, tc |-> tc]
             ELSE IF refund = 0 THEN [ok |-> TRUE, tc |-> paid.tc]
             ELSE IF owner.k # "Account" THEN [ok |-> FALSE, tc |-> tc]
             ELSE LET back == MintTransfer(paid.tc, POS_PAYMENT_PURSE,
                                           owner.main_purse, refund)
                  IN  [ok |-> back.ok, tc |-> IF back.ok THEN back.tc ELSE tc]

\* Executor::exec_system_contract(FinalizePayment, ...) as SYSTEM_ACCOUNT; traps
\* says whether the call traps in the executor.
ExecFinalize(tc, amount, account, target, traps) ==
    LET call == FinalizePayment(tc, amount, account, target)
    IN  IF traps \/ ~call.ok
        THEN [tc |-> tc, result |-> Failure("Finalization", TCEffect(tc), <<>>, 0)]
        ELSE [tc |-> call.tc, result |-> Success(TCEffect(call.tc), <<>>, 0)]

(***************************************************************************)
(* User code.  Payment code moves `amount` motes from the account's main   *)
(* purse into the payment purse and uses `gas`; session code increments    *)
(* the value under KData and uses `gas`.  Either may end in an error after *)
(* its writes; gas beyond the limit ends the phase with GasLimit.          *)
(***************************************************************************)
ExecPayment(tc, account, code, gas_limit) ==
    LET moved == MintTransfer(tc, account.main_purse, POS_PAYMENT_PURSE, code.amount)
        cost == Min(code.gas, gas_limit)
        error == IF code.gas > gas_limit THEN "GasLimit"
                 ELSE IF ~moved.ok THEN "Revert"
                 ELSE IF code.fails THEN "Revert" ELSE "none"
    IN  [tc |-> moved.tc,
         result |-> IF error = "none" THEN Success(TCEffect(moved.tc), <<>>, cost)
                    ELSE Failure(error, TCEffect(moved.tc), <<>>, cost)]

DataValue(tc) == IF TCRead(tc, KData).k = "U512" THEN TCRead(tc, KData).n ELSE 0

ExecSession(tc, code, gas_limit) ==
    LET written == TCWrite(tc, KData, U512(DataValue(tc) + 1))
        cost == Min(code.gas, gas_limit)
        error == IF code.gas > gas_limit THEN "GasLimit"
                 ELSE IF code.fails THEN "Revert" ELSE "none"
    IN  [tc |-> written, read |-> DataValue(tc),
         result |-> IF error = "none" THEN Success(TCEffect(written), <<>>, cost)
                    ELSE Failure(error, TCEffect(written), <<>>, cost)]

(***************************************************************************)
(* ExecutionResult helpers and ExecutionResultBuilder.                     *)
(***************************************************************************)
\* ExecutionResult::check_forced_transfer
check_forced_transfer(payment_result, payment_purse_balance) ==
    IF payment_purse_balance < payment_result.cost * CONV_RATE
    THEN "InsufficientPayment"
    ELSE IF payment_result.tag = "Failure" THEN "PaymentFailure" ELSE "None"

\* ExecutionResult::new_payment_code_error
new_payment_code_error(error, max_payment_cost, account_main_purse_balance, account_main_purse, proposer_main_purse) ==
    Failure(error,
            [EmptyEffect EXCEPT
                ![KBalance(account_main_purse)] =
                    Write(U512(account_main_purse_balance - max_payment_cost)),
                ![KBalance(proposer_main_purse)] = AddUInt512(max_payment_cost)],
            <<>>, max_payment_cost \div CONV_RATE)

\* ExecutionResultBuilder::total_cost with the payment and session results set.
total_cost(payment_result, session_result) == payment_result.cost + session_result.cost

\* Mutant: a failed finalize is merged like a successful one.
build_IgnoreFinalizeFailure(payment_result, session_result, finalize_result) ==
    IF payment_result.tag = "Failure" THEN payment_result
    ELSE IF session_result.tag = "Failure"
    THEN Failure(session_result.error, payment_result.effect,
                 session_result.transfers, payment_result.cost)
    ELSE Success(AddEffects(payment_result.effect, session_result.effect),
                 session_result.transfers,
                 payment_result.cost + session_result.cost)

\* ExecutionResultBuilder::build
build(payment_result, session_result, finalize_result) ==
    IF payment_result.tag = "Failure" THEN payment_result
    ELSE IF finalize_result.tag = "Failure" THEN precondition_failure("Finalization")
    ELSE IF session_result.tag = "Failure"
    THEN Failure(session_result.error,
                 AddEffects(payment_result.effect, finalize_result.effect),
                 session_result.transfers, payment_result.cost)
    ELSE Success(AddEffects(AddEffects(payment_result.effect, session_result.effect),
                            finalize_result.effect),
                 session_result.transfers,
                 payment_result.cost + session_result.cost)

(***************************************************************************)
(* The state provider: a set of committed roots (a root hash is modelled   *)
(* by the state it addresses) and protocol data per protocol version.      *)
(***************************************************************************)
NoProtocolData == [k |-> "none"]

\* ProtocolData::new(wasm_config, system_config, mint, proof_of_stake,
\* standard_payment, auction); the system config is its wasmless transfer cost.
ProtocolDataNew(wasm_config, fee, mint, proof_of_stake, standard_payment, auction) ==
    [k |-> "ProtocolData", wasm_config |-> wasm_config, wasmless_transfer_cost |-> fee,
     mint |-> mint, proof_of_stake |-> proof_of_stake,
     standard_payment |-> standard_payment, auction |-> auction]

\* The protocol data of genesis: the wasm costs of the chainspec and the four
\* system contracts genesis installs.
ProtocolData(fee) ==
    ProtocolDataNew("genesis_costs", fee, "mint", "pos", "standard_payment", "auction")

\* What the store does with a put of another value for a stored version.
StoreConflicts == {"keep", "reject"}

\* Mutant: a later put replaces what is stored for the version.
put_protocol_data_Overwrite(pdata, protocol_version, value, on_conflict) ==
    [ok |-> TRUE, pdata |-> [pdata EXCEPT ![protocol_version] = value]]

\* StateProvider::put_protocol_data on an append-only table: a version is
\* written once; a put of another value for a stored version keeps the stored
\* value or is refused, as the store decides (on_conflict).
put_protocol_data(pdata, protocol_version, value, on_conflict) ==
    IF pdata[protocol_version].k = "none"
    THEN [ok |-> TRUE, pdata |-> [pdata EXCEPT ![protocol_version] = value]]
    ELSE IF pdata[protocol_version] = value \/ on_conflict = "keep"
    THEN [ok |-> TRUE, pdata |-> pdata]
    ELSE [ok |-> FALSE, pdata |-> pdata]

\* Mutant: the protocol data of the latest version that has any.
get_protocol_data_Latest(pdata, protocol_version) ==
    IF \A v \in Versions : pdata[v].k = "none" THEN pdata[protocol_version]
    ELSE pdata[CHOOSE v \in Versions :
                /\ pdata[v].k # "none"
                /\ \A w \in Versions : pdata[w].k # "none" => w <= v]

\* EngineState::get_protocol_data: what is stored for the version, if anything.
get_protocol_data(pdata, protocol_version) == pdata[protocol_version]

\* A hash under which nothing was ever committed.
MissingRoot == [k \in Keys |-> [k |-> "missing"]]

(***************************************************************************)
(* What deploy and transfer return: Err(RootNotFound) or Ok(result), with  *)
(* a record of the phases that ran.                                        *)
(***************************************************************************)
NoResult == [tag |-> "None"]

NoTrace ==
    [phases |-> <<>>, payment |-> NoResult, session |-> NoResult,
     finalize |-> NoResult, finalize_amount |-> 0, session_read |-> 0,
     session_gas_limit |-> 0, finalize_reader |-> EmptyState,
     changed_by_session |-> {}, changed_by_finalize |-> {}]

RootNotFound == [err |-> TRUE, result |-> NoResult, trace |-> NoTrace]

Ok(result, trace) == [err |-> FALSE, result |-> result, trace |-> trace]

Precondition(error) == Ok(precondition_failure(error), NoTrace)

\* Mutant: a checkout of an unknown root yields a reader over nothing.
tracking_copy_AnyRoot(committed, hash) ==
    IF hash \in committed THEN [some |-> TRUE, tc |-> TrackingCopyNew(hash)]
    ELSE [some |-> TRUE, tc |-> TrackingCopyNew(EmptyState)]

\* EngineState::tracking_copy: Some(tracking copy) when the root is committed.
tracking_copy(committed, hash) ==
    IF hash \in committed THEN [some |-> TRUE, tc |-> TrackingCopyNew(hash)]
    ELSE [some |-> FALSE, tc |-> TrackingCopyNew(EmptyState)]

\* Mutant: finalize always starts from the session tracking copy.
post_session_rc_KeepSession(is_failure, post_payment_tracking_copy, session_tracking_copy) ==
    session_tracking_copy

\* deploy, lines 1535-1542: where finalize starts from after the session.
post_session_rc(is_failure, post_payment_tracking_copy, session_tracking_copy) ==
    IF is_failure THEN TCFork(post_payment_tracking_copy) ELSE session_tracking_copy

\* Mutant: the session result keeps the effect the executor returned.
session_with_effect_Forgotten(session_result, session_tracking_copy) ==
    session_result

\* deploy, lines 1540: a successful session result carries the effect of the
\* session tracking copy.
session_with_effect(session_result, session_tracking_copy) ==
    IF session_result.tag = "Failure" THEN session_result
    ELSE [session_result EXCEPT !.effect = TCEffect(session_tracking_copy)]

\* Mutant: finalize is handed the payment cost only.
finalize_cost_motes_PaymentOnly(payment_result, session_result) ==
    payment_result.cost * CONV_RATE

\* deploy, lines 1553-1557: the amount handed to finalize_payment.
finalize_cost_motes(payment_result, session_result) ==
    total_cost(payment_result, session_result) * CONV_RATE

\* Mutant: the session is granted the whole balance of the payment purse.
session_gas_limit_WholeBalance(payment_purse_balance, payment_result_cost) ==
    payment_purse_balance \div CONV_RATE

\* deploy, lines 1486-1493
session_gas_limit(payment_purse_balance, payment_result_cost) ==
    (payment_purse_balance \div CONV_RATE) - payment_result_cost

\* Mutant: a balance equal to MAX_PAYMENT is rejected too.
insufficient_main_purse_OrEqual(account_main_purse_balance) ==
    account_main_purse_balance <= MAX_PAYMENT

\* deploy, lines 1175-1183: the main purse cannot cover MAX_PAYMENT.
insufficient_main_purse(account_main_purse_balance) ==
    account_main_purse_balance < MAX_PAYMENT

\* Mutant: the forced transfer starts from the balance the payment code left.
forced_transfer_result_PostPayment(tc, forced_transfer, payment_result, account_main_purse_balance, account, proposer_account) ==
    IF ~HasBalance(tc, proposer_account.main_purse)
    THEN precondition_failure("Exec")
    ELSE new_payment_code_error(
            IF forced_transfer = "InsufficientPayment" THEN "InsufficientPayment"
            ELSE payment_result.error,
            MAX_PAYMENT, Balance(tc, account.main_purse), account.main_purse,
            proposer_account.main_purse)

\* deploy, lines 1385-1421: the result of a forced transfer.
forced_transfer_result(tc, forced_transfer, payment_result, account_main_purse_balance, account, proposer_account) ==
    IF ~HasBalance(tc, proposer_account.main_purse)
    THEN precondition_failure("Exec")
    ELSE new_payment_code_error(
            IF forced_transfer = "InsufficientPayment" THEN "InsufficientPayment"
            ELSE payment_result.error,
            MAX_PAYMENT, account_main_purse_balance, account.main_purse,
            proposer_account.main_purse)

\* deploy, lines 1426-1623: session on a fork of the post-payment tracking
\* copy, DeployInfo, finalize on a fork, and the merge of the three results.
deploy_session_finalize(tc, account, deploy_item, proposer_purse, payment_result, payment_purse_balance) ==
    LET session_tracking_copy == TCFork(tc)
        gas_limit == session_gas_limit(payment_purse_balance, payment_result.cost)
        ran == ExecSession(session_tracking_copy, deploy_item.session, gas_limit)
        cost == payment_result.cost + ran.result.cost
        deploy_info ==
            DeployInfoValue(deploy_item.deploy_hash, ran.result.transfers,
                            deploy_item.address, account.main_purse, cost)
        session_tc_info ==
            TCWrite(ran.tc, KDeployInfo(deploy_item.deploy_hash), deploy_info)
        is_failure == ran.result.tag = "Failure"
        post_payment_tc == parent_after_fork(tc, session_tc_info)
        post_session_tc == post_session_rc(is_failure, post_payment_tc, session_tc_info)
        session_result == session_with_effect(ran.result, session_tc_info)
        finalization_tc == TCFork(post_session_tc)
        amount == finalize_cost_motes(payment_result, session_result)
        trace0 ==
            [NoTrace EXCEPT !.phases = <<"payment", "session">>,
                            !.payment = payment_result,
                            !.session = session_result,
                            !.session_read = ran.read,
                            !.session_gas_limit = gas_limit,
                            !.changed_by_session = ChangedByFork(tc, session_tc_info)]
    IN  IF TCRead(finalization_tc, KHash("pos")).k # "Contract"
        THEN Ok(precondition_failure("Exec"), trace0)
        ELSE LET fin == ExecFinalize(finalization_tc, amount,
                                     deploy_item.address, proposer_purse,
                                     deploy_item.finalize_traps)
             IN  Ok(build(payment_result, session_result, fin.result),
                    [trace0 EXCEPT !.phases = <<"payment", "session", "finalize">>,
                                   !.finalize = fin.result,
                                   !.finalize_amount = amount,
                                   !.finalize_reader = finalization_tc.reader,
                                   !.changed_by_finalize =
                                        ChangedByFork(post_session_tc, fin.tc)])

\* deploy, lines 1198-1421: the payment phase and the forced transfer.
deploy_payment(tc, account, deploy_item, proposer, account_main_purse_balance) ==
    LET max_payment_cost == MAX_PAYMENT
        paid == ExecPayment(tc, account, deploy_item.payment,
                            max_payment_cost \div CONV_RATE)
        payment_result == paid.result
        trace0 == [NoTrace EXCEPT !.phases = <<"payment">>,
                                  !.payment = payment_result]
        proposer_account == TCRead(paid.tc, KAccount(proposer))
        forced_transfer ==
            check_forced_transfer(payment_result, Balance(paid.tc, POS_PAYMENT_PURSE))
    IN  IF TCRead(paid.tc, KHash("pos")).k # "Contract"
        THEN Ok(precondition_failure("Exec"), trace0)
        ELSE IF ~HasBalance(paid.tc, POS_PAYMENT_PURSE)
        THEN Ok(precondition_failure("Exec"), trace0)
        ELSE IF proposer_account.k # "Account"
        THEN Ok(precondition_failure("Exec"), trace0)
        ELSE IF forced_transfer # "None"
        THEN Ok(forced_transfer_result(paid.tc, forced_transfer, payment_result,
                                       account_main_purse_balance, account,
                                       proposer_account),
                trace0)
        ELSE deploy_session_finalize(paid.tc, account, deploy_item,
                                     proposer_account.main_purse, payment_result,
                                     Balance(paid.tc, POS_PAYMENT_PURSE))

\* Mutant: the session code is resolved when the session phase starts.
deploy_SessionResolvedLate(pdata, committed, protocol_version, prestate_hash, deploy_item, proposer) ==
    IF get_protocol_data(pdata, protocol_version).k = "none"
    THEN Precondition("InvalidProtocolVersion")
    ELSE IF ~tracking_copy(committed, prestate_hash).some THEN RootNotFound
    ELSE LET tc == tracking_copy(committed, prestate_hash).tc
             authorized == get_authorized_account(tc, deploy_item.address,
                                                  deploy_item.authorization_keys)
         IN  IF ~authorized.ok THEN Precondition(authorized.error)
             ELSE IF ~HasBalance(tc, authorized.account.main_purse)
             THEN Precondition("Exec")
             ELSE IF insufficient_main_purse(Balance(tc, authorized.account.main_purse))
             THEN Precondition("InsufficientPayment")
             ELSE IF deploy_item.meta = "bad_payment" THEN Precondition("Exec")
             ELSE deploy_payment(tc, authorized.account, deploy_item, proposer,
                                 Balance(tc, authorized.account.main_purse))

\* EngineState::deploy
deploy(pdata, committed, protocol_version, prestate_hash, deploy_item, proposer) ==
    IF get_protocol_data(pdata, protocol_version).k = "none"
    THEN Precondition("InvalidProtocolVersion")
    ELSE IF ~tracking_copy(committed, prestate_hash).some THEN RootNotFound
    ELSE LET tc == tracking_copy(committed, prestate_hash).tc
             authorized == get_authorized_account(tc, deploy_item.address,
                                                  deploy_item.authorization_keys)
         IN  IF ~authorized.ok THEN Precondition(authorized.error)
             ELSE IF deploy_item.meta = "bad_session" THEN Precondition("Exec")
             ELSE IF ~HasBalance(tc, authorized.account.main_purse)
             THEN Precondition("Exec")
             ELSE IF insufficient_main_purse(Balance(tc, authorized.account.main_purse))
             THEN Precondition("InsufficientPayment")
             ELSE IF deploy_item.meta = "bad_payment" THEN Precondition("Exec")
             ELSE deploy_payment(tc, authorized.account, deploy_item, proposer,
                                 Balance(tc, authorized.account.main_purse))

(***************************************************************************)
(* The native transfer path.                                               *)
(***************************************************************************)
\* Account::create(public_key, named_keys, main_purse)
AccountCreate(public_key, main_purse) ==
    AccountValue(main_purse, [key \in {public_key} |-> 1], 1)

\* Mutant: a purse URef is resolved like an account hash.
transfer_target_mode_AsAccountHash(tc, deploy_item) ==
    IF TCRead(tc, KAccount(deploy_item.target)).k = "Account" THEN "PurseExists"
    ELSE "CreateAccount"

\* TransferRuntimeArgsBuilder::transfer_target_mode: a purse URef must name
\* an existing purse; an account hash names the main purse of its account,
\* or an account to create.
transfer_target_mode(tc, deploy_item) ==
    IF deploy_item.target_kind = "uref"
    THEN IF HasBalance(tc, deploy_item.target) THEN "PurseExists" ELSE "InvalidPurse"
    ELSE IF TCRead(tc, KAccount(deploy_item.target)).k = "Account" THEN "PurseExists"
    ELSE "CreateAccount"

\* Mint create_purse for a new account: a fresh purse with balance zero.
CreatePurse(tc, owner) == TCWrite(tc, KBalance(owner), U512(0))

\* transfer, lines 613-662: create the target account when it does not exist.
transfer_create_target(tc, deploy_item) ==
    IF transfer_target_mode(tc, deploy_item) = "CreateAccount"
    THEN TCWrite(CreatePurse(tc, deploy_item.target), KAccount(deploy_item.target),
                 AccountCreate(deploy_item.target, deploy_item.target))
    ELSE tc

\* The purse the transfer arguments name as target once the mode is resolved.
transfer_target_purse(tc, deploy_item) ==
    IF deploy_item.target_kind = "uref" THEN deploy_item.target
    ELSE TCRead(tc, KAccount(deploy_item.target)).main_purse

\* Mutant: the session transfer keeps the cost the executor reported.
wasmless_session_result_KeepCost(session_result) == session_result

\* transfer, lines 938-940: the fee is already charged, the session transfer
\* is reported at no cost.
wasmless_session_result(session_result) == [session_result EXCEPT !.cost = 0]

\* Mutant: a failed session transfer ends the deploy as a precondition failure.
transfer_result_SessionFailureRollsBack(payment_result, session_result, finalize_result) ==
    IF session_result.tag = "Failure" THEN precondition_failure(session_result.error)
    ELSE build(payment_result, session_result, finalize_result)

\* transfer, lines 1030-1043: the session result is handed to the builder as
\* it is; a failed session transfer does not end the deploy early.
transfer_result(payment_result, session_result, finalize_result) ==
    build(payment_result, session_result, finalize_result)

\* Mutant: a purse holding exactly the fee is refused.
insufficient_source_purse_OrEqual(source_purse_balance, wasmless_transfer_cost) ==
    source_purse_balance <= wasmless_transfer_cost

\* transfer, lines 723-732: the source purse cannot pay the wasmless fee.
insufficient_source_purse(source_purse_balance, wasmless_transfer_cost) ==
    source_purse_balance < wasmless_transfer_cost

\* transfer, lines 892-1043: the session transfer, finalize and the merge.
transfer_session_finalize(tc, account, deploy_item, proposer, payment_result) ==
    LET target_purse == transfer_target_purse(tc, deploy_item)
        moved == MintTransfer(tc, account.main_purse, target_purse,
                              deploy_item.amount)
        ran == wasmless_session_result(
                 IF moved.ok
                 THEN Success(TCEffect(moved.tc), <<deploy_item.amount>>, SystemCallGas)
                 ELSE Failure("Revert", TCEffect(moved.tc), <<>>, SystemCallGas))
        proposer_account == TCRead(moved.tc, KAccount(proposer))
        fee_motes == payment_result.cost * CONV_RATE
        finalization_tc == TCFork(moved.tc)
        fin == ExecFinalize(finalization_tc, fee_motes, deploy_item.address,
                            proposer_account.main_purse, deploy_item.finalize_traps)
        deploy_info ==
            DeployInfoValue(deploy_item.deploy_hash, ran.transfers,
                            deploy_item.address, account.main_purse,
                            payment_result.cost + ran.cost)
        tc_info == TCWrite(parent_after_fork(moved.tc, fin.tc),
                           KDeployInfo(deploy_item.deploy_hash), deploy_info)
        session_result ==
            IF ran.tag = "Success" THEN [ran EXCEPT !.effect = TCEffect(tc_info)]
            ELSE ran
        trace0 ==
            [NoTrace EXCEPT !.phases = <<"payment", "session">>,
                            !.payment = payment_result,
                            !.session = session_result]
    IN  IF proposer_account.k # "Account"
        THEN Ok(precondition_failure("Exec"), trace0)
        ELSE Ok(transfer_result(payment_result, session_result, fin.result),
                [trace0 EXCEPT !.phases = <<"payment", "session", "finalize">>,
                               !.finalize = fin.result,
                               !.finalize_amount = fee_motes,
                               !.finalize_reader = finalization_tc.reader,
                               !.changed_by_finalize = ChangedByFork(moved.tc, fin.tc)])

\* transfer, lines 664-890: charge the wasmless fee into the payment purse.
transfer_payment(tc, account, deploy_item, proposer, fee) ==
    LET wasmless_transfer_cost == fee * CONV_RATE
        paid == MintTransfer(tc, account.main_purse, POS_PAYMENT_PURSE, fee)
    IN  IF ~HasBalance(tc, account.main_purse) THEN Precondition("Exec")
        ELSE IF insufficient_source_purse(Balance(tc, account.main_purse),
                                          wasmless_transfer_cost)
        THEN Precondition("InsufficientPayment")
        ELSE IF ~HasBalance(tc, POS_PAYMENT_PURSE)
        THEN Precondition("InsufficientPayment")
        ELSE IF ~paid.ok THEN Precondition("Revert")
        ELSE transfer_session_finalize(
                paid.tc, account, deploy_item, proposer,
                Success(TCEffect(paid.tc), <<>>,
                        Balance(paid.tc, POS_PAYMENT_PURSE) \div CONV_RATE))

\* EngineState::transfer
transfer(pdata, committed, protocol_version, prestate_hash, deploy_item, proposer) ==
    IF get_protocol_data(pdata, protocol_version).k = "none"
    THEN Precondition("InvalidProtocolVersion")
    ELSE IF ~tracking_copy(committed, prestate_hash).some THEN RootNotFound
    ELSE LET tc == tracking_copy(committed, prestate_hash).tc
             authorized == get_authorized_account(tc, deploy_item.address,
                                                  deploy_item.authorization_keys)
         IN  IF ~authorized.ok THEN Precondition(authorized.error)
             ELSE IF TCRead(tc, KHash(get_protocol_data(pdata, protocol_version).mint)).k # "Contract"
             THEN Precondition("Exec")
             ELSE IF TCRead(tc, KHash(get_protocol_data(pdata, protocol_version).proof_of_stake)).k
                        # "Contract"
             THEN Precondition("Exec")
             ELSE IF transfer_target_mode(tc, deploy_item) = "InvalidPurse"
             THEN Precondition("Revert")
             ELSE transfer_payment(transfer_create_target(tc, deploy_item),
                                   authorized.account, deploy_item, proposer,
                                   get_protocol_data(pdata, protocol_version).wasmless_transfer_cost)

(***************************************************************************)
(* run_execute: every deploy of the request runs against the request's     *)
(* parent_state_hash; the first Err(RootNotFound) ends the call.           *)
(***************************************************************************)
FailedItemResult == Failure("InvalidDeploy", EmptyEffect, <<>>, 0)

\* The ExecutionResult an item that arrives as Err(exec_result) carries: its
\* error is the item's meta and its cost the item's amount.
exec_result(deploy_item) ==
    IF deploy_item.meta = "ok" THEN FailedItemResult
    ELSE Failure(deploy_item.meta, EmptyEffect, <<>>, deploy_item.amount)

\* Mutant: an item that arrives failed is executed like any other deploy.
run_one_ExecutesFailed(pdata, committed, req, deploy_item) ==
    IF deploy_item.kind = "transfer"
    THEN transfer(pdata, committed, req.protocol_version, req.parent_state_hash,
                  deploy_item, req.proposer)
    ELSE deploy(pdata, committed, req.protocol_version, req.parent_state_hash,
                deploy_item, req.proposer)

run_one(pdata, committed, req, deploy_item) ==
    IF deploy_item.kind = "failed" THEN Ok(exec_result(deploy_item), NoTrace)
    ELSE IF deploy_item.kind = "transfer"
    THEN transfer(pdata, committed, req.protocol_version, req.parent_state_hash,
                  deploy_item, req.proposer)
    ELSE deploy(pdata, committed, req.protocol_version, req.parent_state_hash,
                deploy_item, req.proposer)

\* Mutant: each deploy runs on the state its predecessor's effect commits to.
RECURSIVE run_loop_Committing(_, _, _, _, _, _)
run_loop_Committing(pdata, committed, req, i, results, traces) ==
    IF i > Len(req.deploys)
    THEN [err |-> FALSE, results |-> results, traces |-> traces]
    ELSE LET out == run_one(pdata, committed, req, req.deploys[i])
             post == IF out.err \/ CommitFails(req.parent_state_hash, out.result.effect)
                     THEN req.parent_state_hash
                     ELSE Commit(req.parent_state_hash, out.result.effect)
         IN  IF out.err THEN [err |-> TRUE, results |-> <<>>, traces |-> <<>>]
             ELSE run_loop_Committing(
                    pdata, committed \cup {post},
                    [req EXCEPT !.parent_state_hash = post], i + 1,
                    Append(results, out.result), Append(traces, out.trace))

\* Mutant: Err(RootNotFound) is returned with the results computed so far.
RECURSIVE run_loop_KeepsEarlier(_, _, _, _, _, _)
run_loop_KeepsEarlier(pdata, committed, req, i, results, traces) ==
    IF i > Len(req.deploys)
    THEN [err |-> FALSE, results |-> results, traces |-> traces]
    ELSE LET out == run_one(pdata, committed, req, req.deploys[i])
         IN  IF out.err THEN [err |-> TRUE, results |-> results, traces |-> traces]
             ELSE run_loop_KeepsEarlier(pdata, committed, req, i + 1,
                                        Append(results, out.result),
                                        Append(traces, out.trace))

\* run_execute, lines 420-454: the deploys run in order against
\* parent_state_hash; the first Err(RootNotFound) is returned in place of the
\* results.
RECURSIVE run_loop(_, _, _, _, _, _)
run_loop(pdata, committed, req, i, results, traces) ==
    IF i > Len(req.deploys)
    THEN [err |-> FALSE, results |-> results, traces |-> traces]
    ELSE LET out == run_one(pdata, committed, req, req.deploys[i])
         IN  IF out.err THEN [err |-> TRUE, results |-> <<>>, traces |-> <<>>]
             ELSE run_loop(pdata, committed, req, i + 1,
                           Append(results, out.result), Append(traces, out.trace))

run_execute(pdata, committed, req) == run_loop(pdata, committed, req, 1, <<>>, <<>>)

(***************************************************************************)
(* Inputs of the model.                                                    *)
(***************************************************************************)
FullAuth == {"K1", "K2"}

AuthSets == {FullAuth, {"K1"}, {"Z"}}

Payments == [amount : {0, MAX_PAYMENT}, gas : {1, 2}, fails : BOOLEAN]

Sessions == [gas : {1, 2}, fails : BOOLEAN]

DefaultPayment == [amount |-> MAX_PAYMENT, gas |-> 1, fails |-> FALSE]

DefaultSession == [gas |-> 1, fails |-> FALSE]

Item(kind, address, auth, meta, payment, session, target, amount, traps) ==
    [kind |-> kind, address |-> address, authorization_keys |-> auth,
     deploy_hash |-> "h1", meta |-> meta, payment |-> payment,
     session |-> session, target |-> target, target_kind |-> "account",
     amount |-> amount, finalize_traps |-> traps]

\* The same transfer with its target argument given as a purse URef.
ToPurse(item) == [item EXCEPT !.target_kind = "uref"]

\* Payment code after which the session phase is reached.
GoodPayments == {p \in Payments : p.amount = MAX_PAYMENT /\ ~p.fails}

\* Standard deploys of account A: every session behaviour behind a payment
\* that pays, and every payment behaviour that ends in the forced transfer.
StandardItems ==
    {Item("deploy", "A", FullAuth, "ok", p, s, "A", 0, t) :
        p \in GoodPayments, s \in Sessions, t \in BOOLEAN}
    \cup {Item("deploy", "A", FullAuth, "ok", p, DefaultSession, "A", 0, FALSE) :
            p \in Payments \ GoodPayments}

\* Deploys whose session or payment code cannot be resolved, deploys of B,
\* deploys with other authorization keys.
OtherDeployItems ==
    {Item("deploy", "A", FullAuth, m, DefaultPayment, DefaultSession, "A", 0, FALSE) :
        m \in {"bad_session", "bad_payment"}}
    \cup {Item(k, "A", a, "ok", DefaultPayment, DefaultSession, "B", 1, FALSE) :
            k \in {"deploy", "transfer"}, a \in AuthSets \ {FullAuth}}
    \cup {Item("deploy", "B", FullAuth, "ok", DefaultPayment, DefaultSession, "B", 0, FALSE)}

TransferItems ==
    {Item("transfer", "A", FullAuth, "ok", DefaultPayment, DefaultSession, "B", n, t) :
        n \in {1, MAX_PAYMENT}, t \in BOOLEAN}
    \cup {Item("transfer", "B", FullAuth, "ok", DefaultPayment, DefaultSession, "A", n, t) :
            n \in {1, MAX_PAYMENT}, t \in BOOLEAN}
    \cup {Item("transfer", "B", FullAuth, "ok", DefaultPayment, DefaultSession, "C", 1,
                FALSE),
          ToPurse(Item("transfer", "A", FullAuth, "ok", DefaultPayment, DefaultSession,
                       "B", 1, FALSE))}

FailedItem ==
    Item("failed", "A", FullAuth, "ok", DefaultPayment, DefaultSession, "A", 0, FALSE)

\* An item that arrives failed with a result of its own.
RejectedItem ==
    Item("failed", "A", FullAuth, "Rejected", DefaultPayment, DefaultSession, "A", 2, FALSE)

DeployItems ==
    StandardItems \cup OtherDeployItems \cup TransferItems \cup {FailedItem, RejectedItem}

\* Items of the requests that carry more than one deploy.
PairItems ==
    {Item("deploy", "A", FullAuth, "ok", DefaultPayment, s, "A", 0, FALSE) :
        s \in {DefaultSession, [gas |-> 1, fails |-> TRUE]}}
    \cup {Item("transfer", "A", FullAuth, "ok", DefaultPayment, DefaultSession, "B", 1,
               FALSE),
          FailedItem}

RECURSIVE ListsOf(_, _)
ListsOf(items, n) ==
    IF n = 0 THEN {<<>>}
    ELSE {Append(l, d) : l \in ListsOf(items, n - 1), d \in items}

ShortLists == UNION {ListsOf(PairItems, n) : n \in 0..MaxDeploys}

DeployLists == {<<d>> : d \in DeployItems} \cup ShortLists

\* The lists sent at a version without protocol data: every deploy that runs
\* fails on the version alone, lists of two show all there is to see.
OtherVersionLists == UNION {ListsOf(PairItems, n) : n \in 0..Min(MaxDeploys, 2)}

\* Requests: every deploy list at a version that may have protocol data,
\* the short lists at the other version.
Requests(committed) ==
    {[parent_state_hash |-> parent, protocol_version |-> version,
      proposer |-> "P", deploys |-> deploys] :
        parent \in committed \cup {MissingRoot}, version \in GenesisVersions,
        deploys \in DeployLists}
    \cup {[parent_state_hash |-> parent, protocol_version |-> version,
           proposer |-> "P", deploys |-> deploys] :
            parent \in committed \cup {MissingRoot},
            version \in Versions \ GenesisVersions, deploys \in OtherVersionLists}

GenesisBalances == {MAX_PAYMENT - 1, MAX_PAYMENT, MAX_PAYMENT + 2}

GenesisFees == {1, 2}

(***************************************************************************)
(* Genesis: mint, accounts, proof of stake with an empty payment purse.    *)
(***************************************************************************)
GenesisAccount(purse) == AccountValue(purse, [key \in FullAuth |-> 1], 2)

\* Chainspec values of the auction and the mint (spec section 8, scenario 5:
\* validator_slots = 5).
GenesisConfigValue(name) == IF name = VALIDATOR_SLOTS_KEY THEN 5 ELSE 1

GenesisStake == [v \in Validators |-> 1]

\* Genesis validators serve era 0 and the eras within the auction delay.
GenesisEras ==
    [e \in EraIds |->
        IF e <= GenesisConfigValue(AUCTION_DELAY_KEY) THEN Era(Validators) ELSE NoEra]

\* GenesisInstaller: the transforms of a genesis with the given accounts.
GenesisEffect(balance_a, with_b) ==
    [k \in Keys |->
        IF k = KAccount("A") \/ k = KAccount("P") THEN Write(GenesisAccount(k[2]))
        ELSE IF k = KAccount("B") /\ with_b THEN Write(GenesisAccount("B"))
        ELSE IF k = KBalance("A") THEN Write(U512(balance_a))
        ELSE IF k = KBalance("P") \/ k = KBalance(POS_PAYMENT_PURSE) THEN Write(U512(0))
        ELSE IF k = KBalance("B") /\ with_b THEN Write(U512(1))
        ELSE IF k = KHash("auction") THEN Write(ContractWith(AuctionConfigKeys))
        ELSE IF k = KHash("mint") THEN Write(ContractWith({ROUND_SEIGNIORAGE_RATE_KEY}))
        ELSE IF k[1] = "Hash" THEN Write(ContractValue)
        ELSE IF k = KBids THEN Write(BidsValue(GenesisStake))
        ELSE IF k = KEraValidators THEN Write(ErasValue(0, GenesisEras))
        ELSE IF k[1] = "Named" THEN Write(U512(GenesisConfigValue(k[2])))
        ELSE Identity]

\* What an operation of the engine returns: Ok(value), Err(error), or no
\* return at all when the code panics.
Returned(value) == [tag |-> "Ok", value |-> value]

Err(error) == [tag |-> "Err", error |-> error]

Abort(message) == [tag |-> "Abort", message |-> message]

\* The store of the state provider as one value.
Store(committed, pdata) == [roots |-> committed, protocol_data |-> pdata]

\* GenesisResult / UpgradeResult::from_commit_result
from_commit_result(pre, effect) ==
    IF CommitFails(pre, effect) THEN [k |-> "TypeMismatch"]
    ELSE [k |-> "Success", post_state_hash |-> Commit(pre, effect), effect |-> effect]

\* EngineState::commit_genesis: the value returned and the store it leaves.
commit_genesis(pdata, committed, protocol_version, ee_config, on_conflict) ==
    LET initial_root_hash == EmptyState
        execution_effect == GenesisEffect(ee_config.balance_a, ee_config.with_b)
        put == put_protocol_data(pdata, protocol_version,
                                 ProtocolData(ee_config.fee), on_conflict)
        commit_result == from_commit_result(initial_root_hash, execution_effect)
    IN  IF ~tracking_copy(committed, initial_root_hash).some
        THEN [ret |-> Abort("state has not been initialized properly"),
              store |-> Store(committed, pdata)]
        ELSE IF ee_config.installer_fails
        THEN [ret |-> Err("Genesis"), store |-> Store(committed, pdata)]
        ELSE IF ~put.ok THEN [ret |-> Err("Exec"), store |-> Store(committed, pdata)]
        ELSE [ret |-> Returned(commit_result),
              store |-> Store(IF commit_result.k = "Success"
                              THEN committed \cup {commit_result.post_state_hash}
                              ELSE committed,
                              put.pdata)]

(***************************************************************************)
(* Protocol upgrade.  Protocol versions are the minor versions 1.1.0 and   *)
(* 1.2.0 of one major version, written 1 and 2.                            *)
(***************************************************************************)
\* ProtocolVersion::check_next_version: the next version is the one after it.
check_next_version(current, new) == IF new = current + 1 THEN "Valid" ELSE "Invalid"

None == [some |-> FALSE]

Some(v) == [some |-> TRUE, v |-> v]

\* The order in which commit_upgrade rewrites the configured values.
UpgradeOrder ==
    <<VALIDATOR_SLOTS_KEY, AUCTION_DELAY_KEY, LOCKED_FUNDS_PERIOD_KEY,
      UNBONDING_DELAY_KEY, ROUND_SEIGNIORAGE_RATE_KEY>>

\* Mutant: commit_upgrade does not validate the next protocol version.
upgrade_preconditions_NoVersionCheck(pdata, committed, upgrade_config) ==
    IF ~tracking_copy(committed, upgrade_config.pre_state_hash).some
    THEN Returned([k |-> "RootNotFound"])
    ELSE IF get_protocol_data(pdata, upgrade_config.current_protocol_version).k = "none"
    THEN Err([k |-> "InvalidProtocolVersion",
              version |-> upgrade_config.current_protocol_version])
    ELSE [tag |-> "Pass"]

\* commit_upgrade, lines 225-252: the pre-state, the current protocol data and
\* the next version are validated in this order.
upgrade_preconditions(pdata, committed, upgrade_config) ==
    IF ~tracking_copy(committed, upgrade_config.pre_state_hash).some
    THEN Returned([k |-> "RootNotFound"])
    ELSE IF get_protocol_data(pdata, upgrade_config.current_protocol_version).k = "none"
    THEN Err([k |-> "InvalidProtocolVersion",
              version |-> upgrade_config.current_protocol_version])
    ELSE IF check_next_version(upgrade_config.current_protocol_version,
                               upgrade_config.new_protocol_version) = "Invalid"
    THEN Err([k |-> "InvalidProtocolVersion",
              version |-> upgrade_config.new_protocol_version])
    ELSE [tag |-> "Pass"]

\* Mutant: the seigniorage rate is written under the locked funds period key.
upgrade_value_key_Confused(name) ==
    IF name = ROUND_SEIGNIORAGE_RATE_KEY THEN KNamed(LOCKED_FUNDS_PERIOD_KEY)
    ELSE KNamed(name)

\* commit_upgrade, lines 298, 311, 323, 338 and 356: the key the contract's
\* named keys give for the value.
upgrade_value_key(name) == KNamed(name)

\* commit_upgrade, lines 292-366: every value the config gives is written
\* under the named key of the auction (the mint for the seigniorage rate).
RECURSIVE upgrade_writes(_, _, _, _)
upgrade_writes(tc, new_protocol_data, upgrade_config, i) ==
    IF i > Len(UpgradeOrder) THEN [tag |-> "Ok", tc |-> tc]
    ELSE LET name == UpgradeOrder[i]
             hash == IF name = ROUND_SEIGNIORAGE_RATE_KEY
                     THEN new_protocol_data.mint ELSE new_protocol_data.auction
             contract == TCRead(tc, KHash(hash))
             given == upgrade_config.new_values[name]
         IN  IF ~given.some
             THEN upgrade_writes(tc, new_protocol_data, upgrade_config, i + 1)
             ELSE IF contract.k # "Contract" THEN Err("Exec")
             ELSE IF name \notin contract.named_keys
             THEN Abort("named key not found")
             ELSE upgrade_writes(TCWrite(tc, upgrade_value_key(name), U512(given.v)),
                                 new_protocol_data, upgrade_config, i + 1)

\* Mutant: the new protocol data names the mint as its auction contract.
upgrade_protocol_data_AuctionReplaced(current_protocol_data, upgrade_config) ==
    ProtocolDataNew(
        IF upgrade_config.wasm_config.some THEN upgrade_config.wasm_config.v
        ELSE current_protocol_data.wasm_config,
        IF upgrade_config.system_config.some THEN upgrade_config.system_config.v
        ELSE current_protocol_data.wasmless_transfer_cost,
        current_protocol_data.mint, current_protocol_data.proof_of_stake,
        current_protocol_data.standard_payment, current_protocol_data.mint)

\* commit_upgrade, lines 266-283: the wasm and system configs of the upgrade,
\* or the current ones, with the contract hashes of the current protocol data.
upgrade_protocol_data(current_protocol_data, upgrade_config) ==
    ProtocolDataNew(
        IF upgrade_config.wasm_config.some THEN upgrade_config.wasm_config.v
        ELSE current_protocol_data.wasm_config,
        IF upgrade_config.system_config.some THEN upgrade_config.system_config.v
        ELSE current_protocol_data.wasmless_transfer_cost,
        current_protocol_data.mint, current_protocol_data.proof_of_stake,
        current_protocol_data.standard_payment, current_protocol_data.auction)

\* EngineState::commit_upgrade: the value returned and the store it leaves.
commit_upgrade(pdata, committed, upgrade_config, on_conflict) ==
    LET checked == upgrade_preconditions(pdata, committed, upgrade_config)
        pre_state_hash == upgrade_config.pre_state_hash
        current_protocol_data == get_protocol_data(pdata, upgrade_config.current_protocol_version)
        new_protocol_data == upgrade_protocol_data(current_protocol_data, upgrade_config)
        put == put_protocol_data(pdata, upgrade_config.new_protocol_version,
                                 new_protocol_data, on_conflict)
        written == upgrade_writes(tracking_copy(committed, pre_state_hash).tc,
                                  new_protocol_data, upgrade_config, 1)
        commit_result == from_commit_result(pre_state_hash, TCEffect(written.tc))
    IN  IF checked.tag # "Pass" THEN [ret |-> checked, store |-> Store(committed, pdata)]
        ELSE IF ~put.ok THEN [ret |-> Err("Exec"), store |-> Store(committed, pdata)]
        ELSE IF written.tag # "Ok"
        THEN [ret |-> written, store |-> Store(committed, put.pdata)]
        ELSE [ret |-> Returned(commit_result),
              store |-> Store(IF commit_result.k = "Success"
                              THEN committed \cup {commit_result.post_state_hash}
                              ELSE committed,
                              put.pdata)]

(***************************************************************************)
(* The auction contract, run as SYSTEM_ACCOUNT on a tracking copy, and the *)
(* step that ends an era.                                                  *)
(***************************************************************************)
\* Auction slash(validators): the bids of the slashed validators are zeroed.
SlashedBids(bids, validators) ==
    BidsValue([v \in Validators |-> IF v \in validators THEN 0 ELSE bids.stake[v]])

Slash(tc, validators) == TCWrite(tc, KBids, SlashedBids(TCRead(tc, KBids), validators))

\* Auction distribute(reward_factors): every rewarded validator that still has
\* a bid gets its share of the round seigniorage.
RewardedBids(bids, rate, reward_factors) ==
    BidsValue([v \in Validators |->
                IF v \in reward_factors /\ bids.stake[v] > 0
                THEN bids.stake[v] + rate.n ELSE bids.stake[v]])

Distribute(tc, reward_factors) ==
    TCWrite(tc, KBids,
            RewardedBids(TCRead(tc, KBids), TCRead(tc, KNamed(ROUND_SEIGNIORAGE_RATE_KEY)),
                         reward_factors))

\* Auction run_auction(): the era advances and the validators with a bid are
\* the validators of the era the auction delay ahead.
NextEras(bids, eras, delay) ==
    ErasValue(eras.era_id + 1,
              [e \in EraIds |->
                IF e = eras.era_id + 1 + delay.n
                THEN Era({v \in Validators : bids.stake[v] > 0})
                ELSE eras.eras[e]])

RunAuction(tc) ==
    TCWrite(tc, KEraValidators,
            NextEras(TCRead(tc, KBids), TCRead(tc, KEraValidators),
                     TCRead(tc, KNamed(AUCTION_DELAY_KEY))))

\* The auction state under the tracking copy is well formed.
AuctionState(tc) ==
    /\ TCRead(tc, KBids).k = "Bids"
    /\ TCRead(tc, KEraValidators).k = "Eras"
    /\ TCRead(tc, KNamed(AUCTION_DELAY_KEY)).k = "U512"
    /\ TCRead(tc, KNamed(ROUND_SEIGNIORAGE_RATE_KEY)).k = "U512"

AuctionCall(tc, call, args) ==
    CASE call = "slash" -> Slash(tc, args)
      [] call = "distribute" -> Distribute(tc, args)
      [] OTHER -> RunAuction(tc)

\* Executor::exec_system_contract for one auction call of the step: the
\* tracking copy after the call and whether the result is a failure; traps
\* names the call that traps in the executor, if any.
ExecAuction(tc, call, args, traps) ==
    IF traps = call \/ ~AuctionState(tc) THEN [tc |-> tc, is_failure |-> TRUE]
    ELSE [tc |-> AuctionCall(tc, call, args), is_failure |-> FALSE]

\* EngineState::get_era_validators, lines 1722-1767: the auction contract is
\* looked up and its era validators are read.
era_validators_read(tc, auction_hash) ==
    IF TCRead(tc, KHash(auction_hash)).k # "Contract" THEN Err("Exec")
    ELSE IF TCRead(tc, KEraValidators).k # "Eras" THEN Err("EraValidatorsMissing")
    ELSE Returned(TCRead(tc, KEraValidators).eras)

\* Mutant: get_era_validators validates the protocol version before the root.
get_era_validators_VersionFirst(pdata, committed, state_hash, protocol_version) ==
    IF get_protocol_data(pdata, protocol_version).k = "none" THEN Err("InvalidProtocolVersion")
    ELSE IF ~tracking_copy(committed, state_hash).some THEN Err("RootNotFound")
    ELSE era_validators_read(tracking_copy(committed, state_hash).tc,
                             get_protocol_data(pdata, protocol_version).auction)

\* EngineState::get_era_validators
get_era_validators(pdata, committed, state_hash, protocol_version) ==
    IF ~tracking_copy(committed, state_hash).some THEN Err("RootNotFound")
    ELSE IF get_protocol_data(pdata, protocol_version).k = "none" THEN Err("InvalidProtocolVersion")
    ELSE era_validators_read(tracking_copy(committed, state_hash).tc,
                             get_protocol_data(pdata, protocol_version).auction)

StepOutcome(k) == Returned([k |-> k])

StepCalls(error, calls, tc) == [error |-> error, calls |-> calls, tc |-> tc]

\* commit_step, lines 1928-1957: run_auction, when the request asks for it.
step_run_auction(rewarded, step_request) ==
    IF ~step_request.run_auction
    THEN StepCalls("none", <<"slash", "distribute">>, rewarded.tc)
    ELSE IF ExecAuction(rewarded.tc, "run_auction", {}, step_request.traps).is_failure
    THEN StepCalls("AuctionError", <<"slash", "distribute", "run_auction">>, rewarded.tc)
    ELSE StepCalls("none", <<"slash", "distribute", "run_auction">>,
                   ExecAuction(rewarded.tc, "run_auction", {}, step_request.traps).tc)

\* commit_step, lines 1891-1926: distribute, and the step ends if it fails.
step_distribute(rewarded, step_request) ==
    IF rewarded.is_failure
    THEN StepCalls("DistributeError", <<"slash", "distribute">>, rewarded.tc)
    ELSE step_run_auction(rewarded, step_request)

\* Mutant: the step goes on to distribute after a failed slash.
step_calls_IgnoreSlashError(tc, step_request) ==
    step_distribute(
        ExecAuction(ExecAuction(tc, "slash", step_request.slashed_validators,
                                step_request.traps).tc,
                    "distribute", step_request.reward_factors, step_request.traps),
        step_request)

\* commit_step, lines 1859-1957: slash, distribute and, when asked for,
\* run_auction on one tracking copy; the first call that fails ends the step.
step_calls(tc, step_request) ==
    IF ExecAuction(tc, "slash", step_request.slashed_validators,
                   step_request.traps).is_failure
    THEN StepCalls("SlashingError", <<"slash">>, tc)
    ELSE step_distribute(
            ExecAuction(ExecAuction(tc, "slash", step_request.slashed_validators,
                                    step_request.traps).tc,
                        "distribute", step_request.reward_factors, step_request.traps),
            step_request)

\* Mutant: the step returns the validators of the era before next_era_id.
step_result_PreviousEra(step_request, post_state_hash, era_validators) ==
    IF era_validators.tag = "Err"
    THEN Returned([k |-> "GetEraValidatorsError", error |-> era_validators.error])
    ELSE IF ~era_validators.value[step_request.next_era_id].known
    THEN Returned([k |-> "EraValidatorsMissing", era_id |-> step_request.next_era_id])
    ELSE Returned([k |-> "Success", post_state_hash |-> post_state_hash,
                   next_era_validators |->
                       era_validators.value[step_request.next_era_id - 1].validators])

\* commit_step, lines 1981-2006: the result of the step from the era
\* validators read after the commit.
step_result(step_request, post_state_hash, era_validators) ==
    IF era_validators.tag = "Err"
    THEN Returned([k |-> "GetEraValidatorsError", error |-> era_validators.error])
    ELSE IF ~era_validators.value[step_request.next_era_id].known
    THEN Returned([k |-> "EraValidatorsMissing", era_id |-> step_request.next_era_id])
    ELSE Returned([k |-> "Success", post_state_hash |-> post_state_hash,
                   next_era_validators |->
                       era_validators.value[step_request.next_era_id].validators])

StepCommit(ret, committed) == [ret |-> ret, roots |-> committed]

\* The new root is kept only when the step succeeds.
step_committed_IfSuccess(ret, committed, post_state_hash) ==
    StepCommit(ret, IF ret.value.k = "Success" THEN committed \cup {post_state_hash}
                    ELSE committed)

\* Mutant: the era validators are read before the commit, and the commit is
\* made only when the era is there.
step_commit_AfterEraCheck(pdata, committed, step_request, effects) ==
    IF CommitFails(step_request.pre_state_hash, effects)
    THEN StepCommit(StepOutcome("TypeMismatch"), committed)
    ELSE step_committed_IfSuccess(
            step_result(step_request, Commit(step_request.pre_state_hash, effects),
                        get_era_validators(
                            pdata,
                            committed \cup {Commit(step_request.pre_state_hash, effects)},
                            Commit(step_request.pre_state_hash, effects),
                            step_request.protocol_version)),
            committed, Commit(step_request.pre_state_hash, effects))

\* commit_step, lines 1959-2006: the effects are committed, then the era
\* validators are read at the new root.
step_commit(pdata, committed, step_request, effects) ==
    IF CommitFails(step_request.pre_state_hash, effects)
    THEN StepCommit(StepOutcome("TypeMismatch"), committed)
    ELSE StepCommit(
            step_result(step_request, Commit(step_request.pre_state_hash, effects),
                        get_era_validators(
                            pdata,
                            committed \cup {Commit(step_request.pre_state_hash, effects)},
                            Commit(step_request.pre_state_hash, effects),
                            step_request.protocol_version)),
            committed \cup {Commit(step_request.pre_state_hash, effects)})

StepDone(ret, calls, store) == [ret |-> ret, calls |-> calls, store |-> store]

\* commit_step, lines 1959-2006, on the outcome of the auction calls.
step_finish(pdata, committed, ran, done) ==
    IF ran.error # "none"
    THEN StepDone(StepOutcome(ran.error), ran.calls, Store(committed, pdata))
    ELSE StepDone(done.ret, ran.calls, Store(done.roots, pdata))

\* EngineState::commit_step: the value returned, the auction calls made and
\* the store it leaves.
commit_step(pdata, committed, step_request) ==
    IF get_protocol_data(pdata, step_request.protocol_version).k = "none"
    THEN StepDone(StepOutcome("InvalidProtocolVersion"), <<>>, Store(committed, pdata))
    ELSE IF ~tracking_copy(committed, step_request.pre_state_hash).some
    THEN StepDone(StepOutcome("RootNotFound"), <<>>, Store(committed, pdata))
    ELSE IF TCRead(tracking_copy(committed, step_request.pre_state_hash).tc,
                   KHash(get_protocol_data(pdata, step_request.protocol_version).auction)).k # "Contract"
    THEN StepDone(StepOutcome("PreconditionError"), <<>>, Store(committed, pdata))
    ELSE step_finish(
            pdata, committed,
            step_calls(tracking_copy(committed, step_request.pre_state_hash).tc,
                       step_request),
            step_commit(pdata, committed, step_request,
                        TCEffect(step_calls(
                            tracking_copy(committed, step_request.pre_state_hash).tc,
                            step_request).tc)))

\* EngineState::run_query
run_query(committed, state_hash, key) ==
    IF ~tracking_copy(committed, state_hash).some THEN Returned([k |-> "RootNotFound"])
    ELSE IF TCRead(tracking_copy(committed, state_hash).tc, key).k = "none"
    THEN Returned([k |-> "ValueNotFound"])
    ELSE Returned([k |-> "Success",
                   value |-> TCRead(tracking_copy(committed, state_hash).tc, key)])

\* EngineState::get_purse_balance
get_purse_balance(committed, state_hash, purse_uref) ==
    IF ~tracking_copy(committed, state_hash).some THEN Returned([k |-> "RootNotFound"])
    ELSE IF ~HasBalance(tracking_copy(committed, state_hash).tc, purse_uref) THEN Err("Exec")
    ELSE Returned([k |-> "Success",
                   motes |-> Balance(tracking_copy(committed, state_hash).tc, purse_uref)])

\* The outcome of StateProvider::commit on pre_state_hash.
commit_result(committed, pre_state_hash, effects) ==
    IF pre_state_hash \notin committed THEN "RootNotFound"
    ELSE IF CommitFails(pre_state_hash, effects) THEN "TypeMismatch"
    ELSE "Success"

\* Mutant: the commit rewrites the input root in place.
apply_effect_InPlace(committed, pre_state_hash, effects) ==
    IF commit_result(committed, pre_state_hash, effects) = "Success"
    THEN [result |-> "Success", post_state_hash |-> Commit(pre_state_hash, effects),
          roots |-> (committed \ {pre_state_hash}) \cup {Commit(pre_state_hash, effects)}]
    ELSE [result |-> commit_result(committed, pre_state_hash, effects),
          post_state_hash |-> pre_state_hash, roots |-> committed]

\* EngineState::apply_effect: StateProvider::commit of the effects on
\* pre_state_hash; the new root is stored next to the roots already there.
apply_effect(committed, pre_state_hash, effects) ==
    IF commit_result(committed, pre_state_hash, effects) = "Success"
    THEN [result |-> "Success", post_state_hash |-> Commit(pre_state_hash, effects),
          roots |-> committed \cup {Commit(pre_state_hash, effects)}]
    ELSE [result |-> commit_result(committed, pre_state_hash, effects),
          post_state_hash |-> pre_state_hash, roots |-> committed]

\* The effects of the results a run_execute returned.
ResultEffects(ret) == {ret.results[i].effect : i \in DOMAIN ret.results}

\* Mutant: the effects a reading call produced are committed on the root it
\* read.
store_after_read_Committing(committed, pdata, state_hash, effects) ==
    Store(committed
            \cup {Commit(state_hash, e) :
                    e \in {x \in effects : /\ state_hash \in committed
                                             /\ ~CommitFails(state_hash, x)}},
          pdata)

\* The store after run_query, get_purse_balance, get_era_validators and
\* run_execute: they take &self, check readers out of the store and call
\* neither commit nor put_protocol_data; the tracking copies and the effects
\* they computed are dropped or returned to the caller.
store_after_read(committed, pdata, state_hash, effects) == Store(committed, pdata)

NoCall == [op |-> "none"]

\* The callers that may have a run_execute in flight, and no call in flight.
Callers == {"c1", "c2"}

IdleCall == [pc |-> "idle"]

NoCalls == [c \in Callers |-> IdleCall]

Init ==
    /\ roots = {EmptyState}
    /\ protocol_data = [v \in Versions |-> NoProtocolData]
    /\ last = NoCall
    /\ in_flight = NoCalls

\* EngineState::commit_genesis
CommitGenesis ==
    /\ last.op = "none"
    /\ UNCHANGED in_flight
    /\ \E version \in GenesisVersions, fee \in GenesisFees,
       balance_a \in GenesisBalances, with_b \in BOOLEAN,
       on_conflict \in StoreConflicts :
        LET ee_config == [fee |-> fee, balance_a |-> balance_a, with_b |-> with_b,
                          installer_fails |-> FALSE]
            out == commit_genesis(protocol_data, roots, version, ee_config, on_conflict)
        IN  /\ Cardinality(out.store.roots) <= MaxRoots + 1
            /\ roots' = out.store.roots
            /\ protocol_data' = out.store.protocol_data
            /\ last' = [op |-> "commit_genesis", version |-> version,
                        pre |-> Store(roots, protocol_data), ret |-> out.ret]

\* EngineState::run_execute
RunExecute ==
    /\ last.op = "none"
    /\ UNCHANGED in_flight
    /\ \E req \in Requests(roots) :
        /\ last' = [op |-> "run_execute", request |-> req,
                    ret |-> run_execute(protocol_data, roots, req)]
        /\ roots' = store_after_read(roots, protocol_data, req.parent_state_hash,
                                     ResultEffects(last'.ret)).roots
        /\ protocol_data' = store_after_read(roots, protocol_data, req.parent_state_hash,
                                             ResultEffects(last'.ret)).protocol_data

\* EngineState::apply_effect on the effect of one result of the last run_execute
ApplyEffect ==
    /\ last.op = "run_execute"
    /\ UNCHANGED in_flight
    /\ ~last.ret.err
    /\ \E i \in 1..Len(last.ret.results), pre \in roots \cup {MissingRoot} :
        LET effects == last.ret.results[i].effect
            out == apply_effect(roots, pre, effects)
        IN  /\ Cardinality(out.roots) <= MaxRoots + 1
            /\ roots' = out.roots
            /\ last' = [op |-> "apply_effect", pre_state_hash |-> pre,
                        effects |-> effects, result |-> out.result,
                        post_state_hash |-> out.post_state_hash]
            /\ UNCHANGED protocol_data

\* The last call panicked: the process is gone.
Aborted ==
    /\ last.op \in {"commit_genesis", "commit_upgrade"}
    /\ last.ret.tag = "Abort"

\* The caller drops the value returned by the last call.
Discard ==
    /\ last.op # "none"
    /\ UNCHANGED in_flight
    /\ ~Aborted
    /\ last' = NoCall
    /\ UNCHANGED <<roots, protocol_data>>

Next == CommitGenesis \/ RunExecute \/ ApplyEffect \/ Discard

Spec == Init /\ [][Next]_vars

(***************************************************************************)
(* The engine over the life of a chain: genesis, upgrades, steps, queries  *)
(* and a few executions, on a store that may not have been initialised.    *)
(***************************************************************************)
\* Roots the store may hold in this specification.
ChainRoots == MaxRoots + 2

ChainConfigs ==
    {[fee |-> fee, balance_a |-> MAX_PAYMENT + 2, with_b |-> TRUE,
      installer_fails |-> fails] : fee \in GenesisFees, fails \in BOOLEAN}

NoNewValues == [n \in ConfigKeys |-> None]

\* The values an upgrade gives (spec section 8, scenario 5: validator_slots 7).
NewConfigValue(name) == IF name = VALIDATOR_SLOTS_KEY THEN 7 ELSE 2

NewValues ==
    {NoNewValues,
     [NoNewValues EXCEPT ![VALIDATOR_SLOTS_KEY] = Some(NewConfigValue(VALIDATOR_SLOTS_KEY))],
     [n \in ConfigKeys |-> Some(NewConfigValue(n))]}

\* Upgrade configs: every choice of system config and values without new
\* wasm costs, and new wasm costs alone.
UpgradeConfigs(committed) ==
    [pre_state_hash : committed \cup {MissingRoot},
     current_protocol_version : Versions, new_protocol_version : Versions,
     wasm_config : {None},
     system_config : {None, Some(MAX_PAYMENT)}, new_values : NewValues]
    \cup [pre_state_hash : committed,
          current_protocol_version : GenesisVersions, new_protocol_version : Versions,
          wasm_config : {Some("new_costs")},
          system_config : {None}, new_values : {NoNewValues}]

\* Step requests: every choice of slashing, auction and era without a trap,
\* and each trap once with and once without the auction.
StepRequests(committed) ==
    [pre_state_hash : committed \cup {MissingRoot}, protocol_version : Versions,
     slashed_validators : {{}, {"v1"}}, reward_factors : {{"v1"}},
     run_auction : BOOLEAN, next_era_id : {1, 2}, traps : {"none"}]
    \cup [pre_state_hash : committed, protocol_version : GenesisVersions,
          slashed_validators : {{}}, reward_factors : {{"v1"}},
          run_auction : BOOLEAN, next_era_id : {1},
          traps : {"slash", "distribute", "run_auction"}]

\* Effects a caller of apply_effect supplies itself: the auction contract
\* replaced by one without named keys, and the empty transform map.
CallerEffects ==
    {[EmptyEffect EXCEPT ![KHash("auction")] = Write(ContractWith({}))], EmptyEffect}

ChainItems ==
    {Item("transfer", "A", FullAuth, "ok", DefaultPayment, DefaultSession, "B", 1, FALSE),
     Item("deploy", "A", FullAuth, "ok", DefaultPayment, DefaultSession, "A", 0, FALSE)}

ChainRequests(committed) ==
    {[parent_state_hash |-> parent, protocol_version |-> version,
      proposer |-> "P", deploys |-> <<d>>] :
        parent \in committed \cup {MissingRoot}, version \in Versions, d \in ChainItems}

\* EngineState::new over a store that holds the empty root, or over one that
\* was not initialised.
InitChain ==
    /\ roots \in {{EmptyState}, {}}
    /\ protocol_data = [v \in Versions |-> NoProtocolData]
    /\ last = NoCall
    /\ in_flight = NoCalls

\* EngineState::commit_genesis with the chainspec of the chain
CommitGenesisChain ==
    /\ last.op = "none"
    /\ UNCHANGED in_flight
    /\ \E version \in GenesisVersions, ee_config \in ChainConfigs,
       on_conflict \in StoreConflicts :
        LET out == commit_genesis(protocol_data, roots, version, ee_config, on_conflict)
        IN  /\ Cardinality(out.store.roots) <= ChainRoots
            /\ roots' = out.store.roots
            /\ protocol_data' = out.store.protocol_data
            /\ last' = [op |-> "commit_genesis", version |-> version,
                        pre |-> Store(roots, protocol_data), ret |-> out.ret]

\* EngineState::commit_upgrade
CommitUpgrade ==
    /\ last.op = "none"
    /\ UNCHANGED in_flight
    /\ \E upgrade_config \in UpgradeConfigs(roots), on_conflict \in StoreConflicts :
        LET out == commit_upgrade(protocol_data, roots, upgrade_config, on_conflict)
        IN  /\ Cardinality(out.store.roots) <= ChainRoots
            /\ roots' = out.store.roots
            /\ protocol_data' = out.store.protocol_data
            /\ last' = [op |-> "commit_upgrade", request |-> upgrade_config,
                        pre |-> Store(roots, protocol_data), ret |-> out.ret]

\* EngineState::commit_step
CommitStep ==
    /\ last.op = "none"
    /\ UNCHANGED in_flight
    /\ \E step_request \in StepRequests(roots) :
        LET out == commit_step(protocol_data, roots, step_request)
        IN  /\ Cardinality(out.store.roots) <= ChainRoots
            /\ roots' = out.store.roots
            /\ protocol_data' = out.store.protocol_data
            /\ last' = [op |-> "commit_step", request |-> step_request,
                        pre |-> Store(roots, protocol_data), ret |-> out.ret,
                        calls |-> out.calls]

\* EngineState::get_era_validators
GetEraValidators ==
    /\ last.op = "none"
    /\ UNCHANGED in_flight
    /\ \E state_hash \in roots \cup {MissingRoot}, version \in Versions :
        /\ last' = [op |-> "get_era_validators",
                    request |-> [state_hash |-> state_hash,
                                 protocol_version |-> version],
                    pre |-> Store(roots, protocol_data),
                    ret |-> get_era_validators(protocol_data, roots, state_hash, version)]
        /\ roots' = store_after_read(roots, protocol_data, state_hash, {EmptyEffect}).roots
        /\ protocol_data' = store_after_read(roots, protocol_data, state_hash,
                                             {EmptyEffect}).protocol_data

\* EngineState::run_query
RunQuery ==
    /\ last.op = "none"
    /\ UNCHANGED in_flight
    /\ \E state_hash \in roots \cup {MissingRoot},
       key \in {KNamed(VALIDATOR_SLOTS_KEY), KData} :
        /\ last' = [op |-> "run_query",
                    request |-> [state_hash |-> state_hash, key |-> key],
                    pre |-> Store(roots, protocol_data),
                    ret |-> run_query(roots, state_hash, key)]
        /\ roots' = store_after_read(roots, protocol_data, state_hash, {EmptyEffect}).roots
        /\ protocol_data' = store_after_read(roots, protocol_data, state_hash,
                                             {EmptyEffect}).protocol_data

\* EngineState::get_purse_balance
GetPurseBalance ==
    /\ last.op = "none"
    /\ UNCHANGED in_flight
    /\ \E state_hash \in roots \cup {MissingRoot}, purse_uref \in {"A", "C"} :
        /\ last' = [op |-> "get_purse_balance",
                    request |-> [state_hash |-> state_hash, purse_uref |-> purse_uref],
                    pre |-> Store(roots, protocol_data),
                    ret |-> get_purse_balance(roots, state_hash, purse_uref)]
        /\ roots' = store_after_read(roots, protocol_data, state_hash, {EmptyEffect}).roots
        /\ protocol_data' = store_after_read(roots, protocol_data, state_hash,
                                             {EmptyEffect}).protocol_data

\* EngineState::apply_effect on effects of the caller's making
ApplyCallerEffect ==
    /\ last.op = "none"
    /\ UNCHANGED in_flight
    /\ \E effects \in CallerEffects, pre \in roots \cup {MissingRoot} :
        LET out == apply_effect(roots, pre, effects)
        IN  /\ Cardinality(out.roots) <= ChainRoots
            /\ roots' = out.roots
            /\ last' = [op |-> "apply_effect", pre_state_hash |-> pre,
                        effects |-> effects, result |-> out.result,
                        post_state_hash |-> out.post_state_hash]
            /\ UNCHANGED protocol_data

\* EngineState::run_execute on a request of one deploy
RunExecuteChain ==
    /\ last.op = "none"
    /\ UNCHANGED in_flight
    /\ \E req \in ChainRequests(roots) :
        /\ last' = [op |-> "run_execute", request |-> req,
                    pre |-> Store(roots, protocol_data),
                    ret |-> run_execute(protocol_data, roots, req)]
        /\ roots' = store_after_read(roots, protocol_data, req.parent_state_hash,
                                     ResultEffects(last'.ret)).roots
        /\ protocol_data' = store_after_read(roots, protocol_data, req.parent_state_hash,
                                             ResultEffects(last'.ret)).protocol_data

NextChain ==
    \/ CommitGenesisChain \/ CommitUpgrade \/ CommitStep \/ GetEraValidators
    \/ RunQuery \/ GetPurseBalance \/ ApplyCallerEffect \/ RunExecuteChain \/ Discard

SpecChain == InitChain /\ [][NextChain]_vars

(***************************************************************************)
(* Properties.  They speak of the value the last run_execute returned:     *)
(* the request, its results in input order and the phases each deploy ran. *)
(***************************************************************************)
Executed == last.op = "run_execute" /\ ~last.ret.err

Positions == 1..Len(last.ret.results)

ItemAt(i) == last.request.deploys[i]

ResultAt(i) == last.ret.results[i]

TraceAt(i) == last.ret.traces[i]

PreState == last.request.parent_state_hash

PostState(i) == Commit(PreState, ResultAt(i).effect)

Motes(state, purse) == state[KBalance(purse)].n

StateData(state) == IF state[KData].k = "U512" THEN state[KData].n ELSE 0

AllPhases == <<"payment", "session", "finalize">>

\* A standard deploy at position i ran its three phases, the payment and the
\* finalize successfully.
RanThreePhases(i) ==
    /\ ItemAt(i).kind = "deploy"
    /\ TraceAt(i).phases = AllPhases
    /\ TraceAt(i).payment.tag = "Success"
    /\ TraceAt(i).finalize.tag = "Success"

\* C1: a standard deploy whose payment, session and finalize phases all succeed
\* returns Success; its effect is the payment, session and finalize effects
\* merged (the session's write, the DeployInfo record, the payment purse
\* emptied, the cost moved from the account to the proposer) and its cost is
\* payment_cost + session_cost.
C1_SuccessMergesThreePhases ==
    Executed =>
        \A i \in Positions :
            (RanThreePhases(i) /\ TraceAt(i).session.tag = "Success") =>
                LET d == ItemAt(i)
                    r == ResultAt(i)
                    t == TraceAt(i)
                    post == PostState(i)
                IN  /\ r.tag = "Success"
                    /\ r.cost = t.payment.cost + t.session.cost
                    /\ r.cost = d.payment.gas + d.session.gas
                    /\ r.effect = AddEffects(AddEffects(t.payment.effect,
                                                        t.session.effect),
                                             t.finalize.effect)
                    /\ post[KData] = U512(StateData(PreState) + 1)
                    /\ post[KDeployInfo(d.deploy_hash)] =
                            DeployInfoValue(d.deploy_hash, <<>>, d.address,
                                            PreState[KAccount(d.address)].main_purse,
                                            r.cost)
                    /\ Motes(post, POS_PAYMENT_PURSE) = 0
                    /\ Motes(post, d.address) = Motes(PreState, d.address) - r.cost
                    /\ Motes(post, "P") = Motes(PreState, "P") + r.cost

C1_Witness ==
    /\ Executed
    /\ \E i \in Positions :
        /\ RanThreePhases(i)
        /\ TraceAt(i).session.tag = "Success"
        /\ ResultAt(i).tag = "Success"
        /\ ResultAt(i).cost = 3

\* C2: when the session of a standard deploy fails after a successful payment,
\* the result is a Failure whose effect is the payment and finalize effects
\* only: the session's write and the DeployInfo record are absent from it, and
\* finalize read the post-payment state, not the state the session left.
C2_SessionFailureKeepsPaymentAndFinalize ==
    Executed =>
        \A i \in Positions :
            (RanThreePhases(i) /\ TraceAt(i).session.tag = "Failure") =>
                LET d == ItemAt(i)
                    r == ResultAt(i)
                    t == TraceAt(i)
                    post == PostState(i)
                IN  /\ r.tag = "Failure"
                    /\ r.error = t.session.error
                    /\ r.error \in {"Revert", "GasLimit"}
                    /\ t.session.effect[KData] # Identity
                    /\ r.effect = AddEffects(t.payment.effect, t.finalize.effect)
                    /\ r.effect[KData] = Identity
                    /\ r.effect[KDeployInfo(d.deploy_hash)] = Identity
                    /\ post[KData] = PreState[KData]
                    /\ t.finalize_reader[KData] = PreState[KData]
                    /\ t.finalize_reader[KBalance(POS_PAYMENT_PURSE)] =
                            U512(d.payment.amount)
                    /\ Motes(post, POS_PAYMENT_PURSE) = 0
                    /\ Motes(post, d.address) =
                            Motes(PreState, d.address) - t.finalize_amount
                    /\ Motes(post, "P") = Motes(PreState, "P") + t.finalize_amount

C2_Witness ==
    /\ Executed
    /\ \E i \in Positions :
        /\ RanThreePhases(i)
        /\ TraceAt(i).session.tag = "Failure"
        /\ TraceAt(i).session.error = "GasLimit"
        /\ ResultAt(i).tag = "Failure"

\* C3 as stated: after a failed session the amount passed to finalize_payment
\* and the cost of the Failure both equal payment_cost.
C3_FinalizeWithPaymentCostOnly ==
    Executed =>
        \A i \in Positions :
            (RanThreePhases(i) /\ TraceAt(i).session.tag = "Failure") =>
                /\ TraceAt(i).finalize_amount = TraceAt(i).payment.cost * CONV_RATE
                /\ ResultAt(i).cost = TraceAt(i).payment.cost

\* C3 amended: after a failed session the amount passed to finalize_payment is
\* payment_cost + session_cost, the gas used by the failed session included,
\* and this is what the account's main purse loses to the proposer.
C3_FinalizeWithTotalCost ==
    Executed =>
        \A i \in Positions :
            (RanThreePhases(i) /\ TraceAt(i).session.tag = "Failure") =>
                LET d == ItemAt(i)
                    t == TraceAt(i)
                    used == Min(d.session.gas, t.session_gas_limit)
                IN  /\ t.session.cost = used
                    /\ t.finalize_amount = (d.payment.gas + used) * CONV_RATE
                    /\ Motes(PostState(i), d.address) =
                            Motes(PreState, d.address) - (d.payment.gas + used)

C3_Witness ==
    /\ Executed
    /\ \E i \in Positions :
        /\ RanThreePhases(i)
        /\ TraceAt(i).session.tag = "Failure"
        /\ TraceAt(i).session.cost > 0
        /\ TraceAt(i).finalize_amount > TraceAt(i).payment.cost

SessionRan(i) ==
    /\ ItemAt(i).kind = "deploy"
    /\ Len(TraceAt(i).phases) >= 2

\* C4 as stated: the value written by deploy i of a request is the value
\* deploy i+1 of the same request reads.
C4_NextDeployReadsPreviousWrite ==
    Executed =>
        \A i \in Positions :
            (/\ i + 1 \in Positions
             /\ SessionRan(i) /\ SessionRan(i + 1)
             /\ ResultAt(i).tag = "Success") =>
                TraceAt(i + 1).session_read = TraceAt(i).session_read + 1

\* C4 amended: the deploys of a request run one after the other, each on a
\* tracking copy of the request's parent_state_hash: every deploy reads the
\* pre-state value, whatever the deploys before it wrote.
C4_EveryDeployReadsParentState ==
    Executed =>
        \A i \in Positions :
            SessionRan(i) =>
                /\ TraceAt(i).session_read = StateData(PreState)
                /\ TraceAt(i).payment.effect[KBalance(ItemAt(i).address)] =
                        Write(U512(Motes(PreState, ItemAt(i).address)
                                    - ItemAt(i).payment.amount))

C4_Witness ==
    /\ Executed
    /\ Len(last.ret.results) = 2
    /\ SessionRan(1) /\ SessionRan(2)
    /\ ResultAt(1).tag = "Success"
    /\ ResultAt(1).effect[KData] = Write(U512(StateData(PreState) + 1))
    /\ TraceAt(2).session_read = StateData(PreState)

\* The payment phase of the deploy at position i ran and check_forced_transfer
\* fires on its outcome.
ForcedTransfer(i) ==
    /\ ItemAt(i).kind = "deploy"
    /\ Len(TraceAt(i).phases) >= 1
    /\ \/ TraceAt(i).payment.tag = "Failure"
       \/ Motes(PreState, POS_PAYMENT_PURSE) + ItemAt(i).payment.amount
            < TraceAt(i).payment.cost * CONV_RATE

\* C5: when check_forced_transfer fires after the payment phase, the deploy
\* returns a Failure (InsufficientPayment when the payment purse cannot cover
\* the payment cost, the payment error otherwise) whose only transforms take
\* MAX_PAYMENT from the account's pre-payment balance and add it to the
\* proposer; session and finalize do not run and nothing the payment code
\* wrote is kept.
C5_ForcedTransferMovesMaxPayment ==
    Executed =>
        \A i \in Positions :
            ForcedTransfer(i) =>
                LET d == ItemAt(i)
                    r == ResultAt(i)
                    t == TraceAt(i)
                    post == PostState(i)
                    before == Motes(PreState, d.address)
                IN  /\ t.phases = <<"payment">>
                    /\ r.tag = "Failure"
                    /\ r.error =
                        IF Motes(PreState, POS_PAYMENT_PURSE) + d.payment.amount
                                < t.payment.cost * CONV_RATE
                        THEN "InsufficientPayment" ELSE t.payment.error
                    /\ t.payment.effect # EmptyEffect
                    /\ r.effect =
                        [EmptyEffect EXCEPT
                            ![KBalance(d.address)] = Write(U512(before - MAX_PAYMENT)),
                            ![KBalance("P")] = AddUInt512(MAX_PAYMENT)]
                    /\ post = [PreState EXCEPT
                                ![KBalance(d.address)] = U512(before - MAX_PAYMENT),
                                ![KBalance("P")] =
                                    U512(Motes(PreState, "P") + MAX_PAYMENT)]
                    /\ Motes(post, d.address) + Motes(post, "P") =
                            before + Motes(PreState, "P")

C5_Witness ==
    /\ Executed
    /\ \E i \in Positions :
        /\ ForcedTransfer(i)
        /\ ItemAt(i).payment.amount = MAX_PAYMENT
        /\ TraceAt(i).payment.tag = "Failure"
        /\ ResultAt(i).effect[KBalance("P")] = AddUInt512(MAX_PAYMENT)

\* The item at position i is executed against committed state with a known
\* protocol version.
Runs(i) ==
    /\ ItemAt(i).kind \in {"deploy", "transfer"}
    /\ protocol_data[last.request.protocol_version].k # "none"
    /\ PreState \in roots

SenderExists(i) == PreState[KAccount(ItemAt(i).address)].k = "Account"

\* The authorization keys of the item at position i do not reach the
\* deployment threshold of its account.
BelowThreshold(i) ==
    /\ Runs(i)
    /\ SenderExists(i)
    /\ SumWeights(PreState[KAccount(ItemAt(i).address)],
                  ItemAt(i).authorization_keys)
            < PreState[KAccount(ItemAt(i).address)].deployment

NoSideEffects(i) ==
    /\ ResultAt(i).tag = "Failure"
    /\ ResultAt(i).effect = EmptyEffect
    /\ ResultAt(i).cost = 0
    /\ TraceAt(i).phases = <<>>

\* C6 as stated: authorization keys below the deployment threshold always
\* yield the Authorization failure, with no side effects.
C6_BelowThresholdIsAuthorization ==
    Executed =>
        \A i \in Positions :
            BelowThreshold(i) =>
                ResultAt(i).error = "Authorization" /\ NoSideEffects(i)

\* C6 amended: authorization keys below the deployment threshold always yield
\* a failure with no side effects; the error is DeploymentAuthorizationFailure
\* when the keys are all associated with the account and Authorization when
\* one of them is not.
C6_BelowThresholdHasNoSideEffects ==
    Executed =>
        \A i \in Positions :
            BelowThreshold(i) =>
                /\ NoSideEffects(i)
                /\ ResultAt(i).error =
                    IF can_authorize(PreState[KAccount(ItemAt(i).address)],
                                     ItemAt(i).authorization_keys)
                    THEN "DeploymentAuthorizationFailure" ELSE "Authorization"

C6_Witness ==
    /\ Executed
    /\ \E i \in Positions :
        /\ BelowThreshold(i)
        /\ ItemAt(i).authorization_keys = {"K1"}
        /\ ResultAt(i).error = "DeploymentAuthorizationFailure"

\* The request of the last run_execute names a protocol version without
\* protocol data.
InvalidVersion == protocol_data[last.request.protocol_version].k = "none"

\* Some item of the request is executed (it did not arrive already failed).
SomeItemRuns == \E i \in DOMAIN last.request.deploys : last.request.deploys[i].kind # "failed"

\* The precondition failures of the item at position i.
FailsInvalidVersion(i) == ItemAt(i).kind # "failed" /\ InvalidVersion

FailsUnauthorized(i) ==
    /\ Runs(i)
    /\ ~get_authorized_account(TrackingCopyNew(PreState), ItemAt(i).address,
                               ItemAt(i).authorization_keys).ok

\* The native transfer at position i names as target a purse URef that is
\* no purse of the pre-state.
TargetPurseMissing(i) ==
    /\ ItemAt(i).target_kind = "uref"
    /\ PreState[KBalance(ItemAt(i).target)].k # "U512"

FailsInsufficientPayment(i) ==
    /\ Runs(i)
    /\ ~FailsUnauthorized(i)
    /\ \/ /\ ItemAt(i).kind = "deploy"
          /\ ItemAt(i).meta # "bad_session"
          /\ Motes(PreState, ItemAt(i).address) < MAX_PAYMENT
       \/ /\ ItemAt(i).kind = "transfer"
          /\ ~TargetPurseMissing(i)
          /\ Motes(PreState, ItemAt(i).address) <
                protocol_data[last.request.protocol_version].wasmless_transfer_cost
                    * CONV_RATE

SurfacedAsEmptyFailure(i) ==
    /\ NoSideEffects(i)
    /\ PreState \in roots => PostState(i) = PreState

\* C7 as stated: invalid protocol version, missing pre-state root,
\* unauthorized account and insufficient payment are each surfaced by
\* run_execute as a Failure with cost 0 and empty effect.
C7_EveryPreconditionIsAnEmptyFailure ==
    last.op = "run_execute" =>
        /\ ~last.ret.err
        /\ \A i \in Positions :
            (\/ FailsInvalidVersion(i)
             \/ FailsUnauthorized(i)
             \/ FailsInsufficientPayment(i)) => SurfacedAsEmptyFailure(i)

\* C7 amended: invalid protocol version, unauthorized account and insufficient
\* payment are each surfaced as a Failure with cost 0 and empty effect, whose
\* commit leaves the state unchanged; a missing pre-state root, the protocol
\* version being known, is surfaced as Err(RootNotFound) of the whole call.
C7_PreconditionFailuresAndRootNotFound ==
    last.op = "run_execute" =>
        /\ last.ret.err <=> (~InvalidVersion /\ PreState \notin roots /\ SomeItemRuns)
        /\ last.ret.err => last.ret.results = <<>>
        /\ ~last.ret.err =>
            /\ Len(last.ret.results) = Len(last.request.deploys)
            /\ \A i \in Positions :
                (\/ FailsInvalidVersion(i)
                 \/ FailsUnauthorized(i)
                 \/ FailsInsufficientPayment(i)) =>
                    /\ SurfacedAsEmptyFailure(i)
                    /\ FailsInvalidVersion(i) =>
                            ResultAt(i).error = "InvalidProtocolVersion"
                    /\ FailsInsufficientPayment(i) =>
                            ResultAt(i).error = "InsufficientPayment"

C7_Witness ==
    /\ last.op = "run_execute"
    /\ last.ret.err
    /\ PreState \notin roots
    /\ Len(last.request.deploys) = 2

\* C8: a standard deploy whose account has less than MAX_PAYMENT in its main
\* purse is a precondition failure (InsufficientPayment once the account is
\* authorized and the session code resolved) and runs no payment code; a
\* balance equal to MAX_PAYMENT passes the check and the payment code runs.
C8_MainPurseBelowMaxPayment ==
    Executed =>
        \A i \in Positions :
            (Runs(i) /\ ItemAt(i).kind = "deploy" /\ SenderExists(i)) =>
                LET d == ItemAt(i)
                    balance == Motes(PreState, d.address)
                    checked == ~FailsUnauthorized(i) /\ d.meta # "bad_session"
                IN  /\ balance < MAX_PAYMENT =>
                        /\ NoSideEffects(i)
                        /\ checked => ResultAt(i).error = "InsufficientPayment"
                    /\ (balance = MAX_PAYMENT /\ checked /\ d.meta = "ok") =>
                        /\ TraceAt(i).phases # <<>>
                        /\ TraceAt(i).phases[1] = "payment"
                        /\ ResultAt(i).error # "InsufficientPayment"
                                \/ ForcedTransfer(i)

C8_Witness ==
    /\ Executed
    /\ \E i \in Positions :
        /\ Runs(i) /\ ItemAt(i).kind = "deploy" /\ SenderExists(i)
        /\ ~FailsUnauthorized(i)
        /\ Motes(PreState, ItemAt(i).address) = MAX_PAYMENT - 1
        /\ ResultAt(i).error = "InsufficientPayment"
        /\ TraceAt(i).phases = <<>>

\* C9: when the finalize phase of a standard deploy fails, the deploy is
\* reported as a precondition failure: empty effect, zero cost, and committing
\* it leaves the state unchanged although payment and session wrote.
C9_FinalizeFailureIsPreconditionFailure ==
    Executed =>
        \A i \in Positions :
            (/\ ItemAt(i).kind = "deploy"
             /\ TraceAt(i).phases = AllPhases
             /\ TraceAt(i).finalize.tag = "Failure") =>
                /\ TraceAt(i).payment.effect # EmptyEffect
                /\ ResultAt(i).tag = "Failure"
                /\ ResultAt(i).effect = EmptyEffect
                /\ ResultAt(i).cost = 0
                /\ PostState(i) = PreState

C9_Witness ==
    /\ Executed
    /\ \E i \in Positions :
        /\ ItemAt(i).kind = "deploy"
        /\ TraceAt(i).phases = AllPhases
        /\ TraceAt(i).session.tag = "Success"
        /\ TraceAt(i).finalize.tag = "Failure"
        /\ ResultAt(i).cost = 0

WasmlessFee == protocol_data[last.request.protocol_version].wasmless_transfer_cost

\* The item at position i is a native transfer between distinct accounts,
\* neither of them the proposer, whose source holds the amount and the fee
\* and is authorized, and whose system calls do not trap.
FundedTransfer(i) ==
    /\ Runs(i)
    /\ ItemAt(i).kind = "transfer"
    /\ ItemAt(i).target_kind = "account"
    /\ ~FailsUnauthorized(i)
    /\ ItemAt(i).target # ItemAt(i).address
    /\ last.request.proposer \notin {ItemAt(i).address, ItemAt(i).target}
    /\ Motes(PreState, ItemAt(i).address) >= ItemAt(i).amount + WasmlessFee * CONV_RATE
    /\ ~ItemAt(i).finalize_traps

\* C10: a funded native transfer of amount a from A to B with proposer P
\* succeeds; committing its effect takes a + wasmless_fee from A, gives a to B
\* (created with that balance when it did not exist) and the fee to P; the
\* cost of the result is the wasmless fee.
C10_NativeTransferBalances ==
    Executed =>
        \A i \in Positions :
            FundedTransfer(i) =>
                LET d == ItemAt(i)
                    r == ResultAt(i)
                    post == PostState(i)
                    target_before ==
                        IF PreState[KBalance(d.target)].k = "U512"
                        THEN Motes(PreState, d.target) ELSE 0
                IN  /\ r.tag = "Success"
                    /\ r.cost = WasmlessFee
                    /\ TraceAt(i).session.cost = 0
                    /\ Motes(post, d.address) =
                            Motes(PreState, d.address) - d.amount - WasmlessFee * CONV_RATE
                    /\ Motes(post, d.target) = target_before + d.amount
                    /\ Motes(post, last.request.proposer) =
                            Motes(PreState, last.request.proposer)
                                + WasmlessFee * CONV_RATE
                    /\ Motes(post, POS_PAYMENT_PURSE) = 0
                    /\ post[KAccount(d.target)].k = "Account"

C10_Witness ==
    /\ Executed
    /\ \E i \in Positions :
        /\ FundedTransfer(i)
        /\ WasmlessFee = 2
        /\ ItemAt(i).amount = MAX_PAYMENT
        /\ PreState[KAccount(ItemAt(i).target)].k = "Account"
        /\ Motes(PostState(i), ItemAt(i).target)
                = Motes(PreState, ItemAt(i).target) + MAX_PAYMENT

\* transfer, the system calls of the item at position i were reached: the item
\* is a native transfer of an authorized account to a target that resolves,
\* and the purse of the account holds the fee.
ReachesFeeTransfer(i) ==
    /\ Runs(i)
    /\ ItemAt(i).kind = "transfer"
    /\ ~FailsUnauthorized(i)
    /\ ~TargetPurseMissing(i)
    /\ Motes(PreState, ItemAt(i).address) >= WasmlessFee * CONV_RATE

\* The session transfer of the amount fails in the mint: the source purse
\* holds the fee but not the fee and the amount.
SessionTransferFails(i) ==
    /\ ReachesFeeTransfer(i)
    /\ Motes(PreState, ItemAt(i).address) < ItemAt(i).amount + WasmlessFee * CONV_RATE

BelowWasmlessFee(i) ==
    /\ Runs(i)
    /\ ItemAt(i).kind = "transfer"
    /\ ~FailsUnauthorized(i)
    /\ ~TargetPurseMissing(i)
    /\ Motes(PreState, ItemAt(i).address) < WasmlessFee * CONV_RATE

\* C12: a native transfer whose source purse holds strictly less than the
\* wasmless fee returns Failure(InsufficientPayment) with empty effect and cost
\* 0 and runs no phase, also when the target account was created in the
\* tracking copy before the check; a balance equal to the fee passes the check
\* and the fee is transferred.
C12_SourceBelowWasmlessFee ==
    Executed =>
        \A i \in Positions :
            /\ BelowWasmlessFee(i) =>
                /\ ResultAt(i).tag = "Failure"
                /\ ResultAt(i).error = "InsufficientPayment"
                /\ ResultAt(i).effect = EmptyEffect
                /\ ResultAt(i).cost = 0
                /\ TraceAt(i).phases = <<>>
                /\ PostState(i) = PreState
            /\ (ReachesFeeTransfer(i)
                /\ Motes(PreState, ItemAt(i).address) = WasmlessFee * CONV_RATE) =>
                /\ Len(TraceAt(i).phases) >= 2
                /\ TraceAt(i).payment.tag = "Success"
                /\ TraceAt(i).payment.cost = WasmlessFee
                /\ ResultAt(i).error # "InsufficientPayment"

C12_Witness ==
    /\ Executed
    /\ \E i \in Positions :
        /\ BelowWasmlessFee(i)
        /\ PreState[KAccount(ItemAt(i).target)].k # "Account"
        /\ ResultAt(i).error = "InsufficientPayment"
        /\ ResultAt(i).effect = EmptyEffect

(***************************************************************************)
(* Properties of the chain operations.  They speak of the last call: its   *)
(* request, the store before it (last.pre), the value it returned and the  *)
(* store it left (roots, protocol_data).                                   *)
(***************************************************************************)
StoreNow == Store(roots, protocol_data)

Upgraded == last.op = "commit_upgrade"

UpgradeSucceeded == Upgraded /\ last.ret.tag = "Ok" /\ last.ret.value.k = "Success"

UpgradeRootExists == last.request.pre_state_hash \in last.pre.roots

UpgradeCurrentStored ==
    last.pre.protocol_data[last.request.current_protocol_version].k # "none"

UpgradeNextValid ==
    check_next_version(last.request.current_protocol_version,
                       last.request.new_protocol_version) # "Invalid"

\* C13: commit_upgrade succeeds only if the pre-state root exists, protocol
\* data is stored for the current version and the next version is valid;
\* otherwise it returns, in this order, RootNotFound,
\* InvalidProtocolVersion(current) or InvalidProtocolVersion(new), and the
\* roots and the protocol data are as before the call.
C13_UpgradePreconditions ==
    Upgraded =>
        /\ UpgradeSucceeded =>
            UpgradeRootExists /\ UpgradeCurrentStored /\ UpgradeNextValid
        /\ ~UpgradeRootExists =>
            /\ last.ret = Returned([k |-> "RootNotFound"])
            /\ StoreNow = last.pre
        /\ (UpgradeRootExists /\ ~UpgradeCurrentStored) =>
            /\ last.ret = Err([k |-> "InvalidProtocolVersion",
                               version |-> last.request.current_protocol_version])
            /\ StoreNow = last.pre
        /\ (UpgradeRootExists /\ UpgradeCurrentStored /\ ~UpgradeNextValid) =>
            /\ last.ret = Err([k |-> "InvalidProtocolVersion",
                               version |-> last.request.new_protocol_version])
            /\ StoreNow = last.pre

C13_Witness ==
    /\ Upgraded
    /\ UpgradeRootExists /\ UpgradeCurrentStored /\ ~UpgradeNextValid
    /\ last.request.new_protocol_version # last.request.current_protocol_version
    /\ last.ret.tag = "Err"
    /\ last.ret.error.version = last.request.new_protocol_version

\* The value run_query reads under the named key of a configured value.
ConfigValueAt(state_hash, name) == run_query(roots, state_hash, KNamed(name))

\* C14: after a successful commit_upgrade each of the five configured values
\* (validator_slots, auction_delay, locked_funds_period, unbonding_delay of the
\* auction, round_seigniorage_rate of the mint) read at the post-state is the
\* value the upgrade config gives, and the pre-state value when the config
\* gives none.
C14_UpgradeWritesConfiguredValues ==
    UpgradeSucceeded =>
        \A name \in ConfigKeys :
            LET given == last.request.new_values[name]
                post_state_hash == last.ret.value.post_state_hash
            IN  /\ post_state_hash \in roots
                /\ given.some =>
                    ConfigValueAt(post_state_hash, name)
                        = Returned([k |-> "Success", value |-> U512(given.v)])
                /\ ~given.some =>
                    ConfigValueAt(post_state_hash, name)
                        = ConfigValueAt(last.request.pre_state_hash, name)

C14_Witness ==
    /\ UpgradeSucceeded
    /\ last.request.new_values[VALIDATOR_SLOTS_KEY] = Some(7)
    /\ ~last.request.new_values[AUCTION_DELAY_KEY].some
    /\ ConfigValueAt(last.request.pre_state_hash, VALIDATOR_SLOTS_KEY).value.value = U512(5)
    /\ ConfigValueAt(last.ret.value.post_state_hash, VALIDATOR_SLOTS_KEY).value.value = U512(7)
    /\ ConfigValueAt(last.ret.value.post_state_hash, AUCTION_DELAY_KEY).value.value = U512(1)

Stepped == last.op = "commit_step"

StepKind == last.ret.value.k

AllStepCalls == <<"slash", "distribute", "run_auction">>

\* The step got past its preconditions: protocol data, root, auction contract.
StepStarted ==
    /\ Stepped
    /\ last.pre.protocol_data[last.request.protocol_version].k # "none"
    /\ last.request.pre_state_hash \in last.pre.roots
    /\ last.request.pre_state_hash[KHash("auction")].k = "Contract"

\* The auction state of the pre-state is well formed, so a call fails only
\* when it traps.
StepOnAuctionState ==
    /\ StepStarted
    /\ AuctionState(TrackingCopyNew(last.request.pre_state_hash))

StepCommitted == Stepped /\ roots # last.pre.roots

\* C15: commit_step runs slash, distribute and, only when run_auction is
\* set, run_auction, in this order on one tracking copy; a failing call ends
\* the step with SlashingError, DistributeError or AuctionError, no later call
\* is made and nothing is committed; a commit is made only after every
\* requested call succeeded.
C15_StepCallsInOrder ==
    Stepped =>
        /\ last.calls = SubSeq(AllStepCalls, 1, Len(last.calls))
        /\ ~StepStarted => last.calls = <<>>
        /\ (Len(last.calls) = 3) => last.request.run_auction
        /\ (StepKind = "SlashingError") =>
            last.calls = <<"slash">> /\ StoreNow = last.pre
        /\ (StepKind = "DistributeError") =>
            last.calls = <<"slash", "distribute">> /\ StoreNow = last.pre
        /\ (StepKind = "AuctionError") =>
            last.calls = AllStepCalls /\ StoreNow = last.pre
        /\ StepOnAuctionState =>
            /\ (last.request.traps = "slash") => StepKind = "SlashingError"
            /\ (last.request.traps = "distribute") => StepKind = "DistributeError"
            /\ (last.request.traps = "run_auction" /\ last.request.run_auction) =>
                StepKind = "AuctionError"
        /\ StepCommitted =>
            /\ last.calls = IF last.request.run_auction THEN AllStepCalls
                            ELSE <<"slash", "distribute">>
            /\ StepKind \notin {"SlashingError", "DistributeError", "AuctionError"}
            /\ \A post \in roots \ last.pre.roots :
                /\ \A v \in last.request.slashed_validators :
                    post[KBids].stake[v] = 0
                /\ last.request.run_auction =>
                    LET eras == post[KEraValidators]
                        delay == post[KNamed(AUCTION_DELAY_KEY)].n
                    IN  /\ eras.era_id = last.request.pre_state_hash[KEraValidators].era_id + 1
                        /\ eras.era_id + delay \in EraIds =>
                            eras.eras[eras.era_id + delay]
                                = Era({v \in Validators : post[KBids].stake[v] > 0})

C15_Witness ==
    /\ StepOnAuctionState
    /\ last.request.traps = "distribute"
    /\ StepKind = "DistributeError"
    /\ last.calls = <<"slash", "distribute">>
    /\ StoreNow = last.pre

\* The last call was a commit_genesis, commit_upgrade or commit_step that
\* returned an error or a result other than Success.
CommitCallFailed ==
    /\ last.op \in {"commit_genesis", "commit_upgrade", "commit_step"}
    /\ \/ last.ret.tag = "Err"
       \/ last.ret.tag = "Ok" /\ last.ret.value.k # "Success"

\* C16: whenever commit_genesis, commit_upgrade or commit_step returns an
\* error or a result other than Success, the roots and the protocol data are
\* exactly as before the call.
C16_NoPartialStateOnFailure == CommitCallFailed => StoreNow = last.pre

C16_Witness ==
    /\ CommitCallFailed
    /\ last.op = "commit_step"
    /\ StepKind = "EraValidatorsMissing"
    /\ last.pre.roots \subseteq roots
    /\ roots # last.pre.roots
    /\ protocol_data = last.pre.protocol_data

\* C17: errors are values: every public operation of the engine returns a
\* result value (Ok or Err) and never aborts the process, whatever the input
\* and the store.
C17_ErrorsAreValues ==
    /\ last.op \in {"commit_genesis", "commit_upgrade", "commit_step", "run_query",
                    "get_era_validators"} =>
        last.ret.tag \in {"Ok", "Err"}
    /\ last.op = "run_execute" => last.ret.err \in BOOLEAN

C17_Witness ==
    /\ Aborted
    /\ last.op = "commit_upgrade"
    /\ last.ret = Abort("named key not found")
    /\ UpgradeRootExists /\ UpgradeCurrentStored /\ UpgradeNextValid
    /\ last.request.pre_state_hash[KHash("auction")] = ContractWith({})

UpgradeNewData ==
    upgrade_protocol_data(last.pre.protocol_data[last.request.current_protocol_version],
                          last.request)

RequestStore(root, version) ==
    Store(last.pre.roots \cap {root},
          [v \in Versions |->
            IF v = version THEN last.pre.protocol_data[v] ELSE NoProtocolData])

\* The last call was made on a store on which earlier calls left more than
\* the request names.
AfterEarlierCalls(root, version) == RequestStore(root, version) # last.pre

RunWith(i, d) ==
    run_execute(protocol_data, roots, [last.request EXCEPT !.deploys[i] = d])

\* C20: failures in one deploy do not affect the later deploys of the same
\* request: the result of deploy j is the result item j has when it is run
\* alone on the request's pre-state, so it is the same whatever the deploys
\* before it are and however they end; for the requests of two deploys the
\* result of the second is compared with every replacement of the first
\* (ending in Success, Failure or precondition failure).
C20_LaterDeploysUnaffected ==
    Executed =>
        /\ \A j \in Positions :
            run_execute(protocol_data, roots,
                        [last.request EXCEPT !.deploys = <<ItemAt(j)>>])
                = [err |-> FALSE, results |-> <<ResultAt(j)>>,
                   traces |-> <<TraceAt(j)>>]
        /\ Len(last.ret.results) = 2 =>
            \A d \in PairItems :
                ~RunWith(1, d).err => RunWith(1, d).results[2] = ResultAt(2)

C20_Witness ==
    /\ Executed
    /\ Len(last.ret.results) = 2
    /\ ResultAt(1).tag = "Failure"
    /\ ResultAt(2).tag = "Success"
    /\ \E d \in PairItems :
        /\ RunWith(1, d).results[1].tag = "Success"
        /\ RunWith(1, d).results[1].effect # ResultAt(1).effect
        /\ RunWith(1, d).results[2] = ResultAt(2)
    /\ \E d \in PairItems :
        /\ RunWith(1, d).results[1].effect = EmptyEffect
        /\ RunWith(1, d).results[2] = ResultAt(2)

\* C21: when run_execute returns Ok the result list has one entry per deploy
\* of the request, in input order (entry i is the result of deploy i), and an
\* item that arrived already failed is reported with the result it carried,
\* without being executed (no phase ran, no tracking copy was made).
C21_OneResultPerDeployInOrder ==
    Executed =>
        /\ Len(last.ret.results) = Len(last.request.deploys)
        /\ \A i \in Positions :
            /\ Ok(ResultAt(i), TraceAt(i))
                    = run_one(protocol_data, roots, last.request, ItemAt(i))
            /\ ItemAt(i).kind = "failed" =>
                /\ ResultAt(i) = exec_result(ItemAt(i))
                /\ TraceAt(i) = NoTrace

\* C21 witness: a request of two deploys on a stored root whose first item
\* ran and succeeded and whose second item arrived failed: the second entry
\* is the carried result, the first is the result of the executed deploy.
C21_Witness ==
    /\ Executed
    /\ Len(last.ret.results) = 2
    /\ PreState \in roots
    /\ ItemAt(1).kind = "deploy"
    /\ ItemAt(2).kind = "failed"
    /\ ResultAt(1).tag = "Success"
    /\ ResultAt(2) = exec_result(ItemAt(2))
    /\ ResultAt(1) # ResultAt(2)

ReadingCalls == {"run_query", "get_purse_balance", "get_era_validators", "run_execute"}

\* C22: run_query, get_purse_balance, get_era_validators and run_execute are
\* read-only: whatever they return, the set of committed roots (and with it the
\* value at every key of every root) and the protocol-data store are the same
\* after the call as before it; the effects of execution results are in the
\* store only if a separate commit put them there.
C22_ReadingCallsLeaveStore ==
    [][last'.op \in ReadingCalls => roots' = roots /\ protocol_data' = protocol_data]_vars

\* C22 witness: a run_execute returned a Success whose effect, committed on the
\* state it read, gives a root the store does not hold, and the store is the
\* one before the call.
C22_Witness ==
    /\ Executed
    /\ PreState \in roots
    /\ ResultAt(1).tag = "Success"
    /\ ~CommitFails(PreState, ResultAt(1).effect)
    /\ Commit(PreState, ResultAt(1).effect) \notin roots
    /\ StoreNow = last.pre

\* The value read at key through a checkout of root in the store committed.
ReadAt(committed, root, key) == run_query(committed, root, key)

PostPayment(i) == Commit(PreState, TraceAt(i).payment.effect)

Ran(i, phase) == \E n \in DOMAIN TraceAt(i).phases : TraceAt(i).phases[n] = phase

\* The keys a phase wrote or added to.
Touched(effect) == {k \in Keys : effect[k] # Identity}

PaymentGasLimit == MAX_PAYMENT \div CONV_RATE

\* The balance of the payment purse after the payment phase of deploy i, in gas.
PaymentPurseGas(i) == Motes(PostPayment(i), POS_PAYMENT_PURSE) \div CONV_RATE

\* C25: gas bound of a standard deploy: the payment phase costs at most
\* from_motes(MAX_PAYMENT); when the session phase is reached its gas limit is
\* from_motes(payment_purse_balance) - payment_cost, which is not negative, and
\* the session costs at most that; so the cost of the result is at most the gas
\* granted, and the amount finalize_payment is asked for (payment_cost +
\* session_cost, in motes) is at most the payment purse balance.
C25_GasBound ==
    Executed =>
        \A i \in Positions :
            (ItemAt(i).kind = "deploy" /\ Ran(i, "payment")) =>
                /\ TraceAt(i).payment.cost <= PaymentGasLimit
                /\ ~Ran(i, "session") => ResultAt(i).cost <= PaymentGasLimit
                /\ Ran(i, "session") =>
                    /\ TraceAt(i).session_gas_limit
                            = PaymentPurseGas(i) - TraceAt(i).payment.cost
                    /\ TraceAt(i).session_gas_limit >= 0
                    /\ TraceAt(i).session.cost <= TraceAt(i).session_gas_limit
                    /\ ResultAt(i).cost <= PaymentPurseGas(i)
                /\ Ran(i, "finalize") =>
                    /\ TraceAt(i).finalize_amount
                            = (TraceAt(i).payment.cost + TraceAt(i).session.cost) * CONV_RATE
                    /\ TraceAt(i).finalize_amount
                            <= Motes(PostPayment(i), POS_PAYMENT_PURSE)

\* C25 witness: a deploy whose payment used gas, whose session ran out of the
\* gas that was left, and whose finalize was asked for the whole balance of
\* the payment purse.
C25_Witness ==
    /\ Executed
    /\ Len(last.ret.results) = 1
    /\ ItemAt(1).kind = "deploy"
    /\ Ran(1, "finalize")
    /\ TraceAt(1).payment.cost = 2
    /\ TraceAt(1).session.tag = "Failure"
    /\ TraceAt(1).session.error = "GasLimit"
    /\ TraceAt(1).session.cost = TraceAt(1).session_gas_limit
    /\ TraceAt(1).finalize_amount = Motes(PostPayment(1), POS_PAYMENT_PURSE)

(***************************************************************************)
(* run_execute step by step.  A call in flight holds its request, the      *)
(* position of the deploy it is at, the results pushed so far and the      *)
(* locals of the deploy it is in: its tracking copy and the results of the *)
(* phases already run.  The steps of a call are the two reads of the store *)
(* (get_protocol_data, checkout) and the three phases of a deploy.         *)
(***************************************************************************)
NoLocals ==
    [tc |-> TrackingCopyNew(EmptyState), account |-> NoValue,
     payment_result |-> NoResult, payment_purse_balance |-> 0,
     proposer_purse |-> "none", session_result |-> NoResult]

\* run_execute, lines 417-420: the call starts with an empty result list.
begin_call(req) ==
    [pc |-> "item", request |-> req, i |-> 1, results |-> <<>>, err |-> FALSE,
     locals |-> NoLocals]

CallItem(call) == call.request.deploys[call.i]

\* run_execute, lines 444-445: the result is pushed, the loop goes on.
push_back(call, result) ==
    [call EXCEPT !.results = Append(@, result), !.i = @ + 1, !.pc = "item",
                 !.locals = NoLocals]

\* run_execute, lines 421-424 and 453: the next deploy item, or Ok(results).
item_step(call) ==
    IF call.i > Len(call.request.deploys) THEN [call EXCEPT !.pc = "done"]
    ELSE IF CallItem(call).kind = "failed"
    THEN push_back(call, exec_result(CallItem(call)))
    ELSE [call EXCEPT !.pc = "get_protocol_data"]

\* deploy, lines 1059-1072: the protocol data of the request's version.
get_protocol_data_step(call, pdata) ==
    IF get_protocol_data(pdata, call.request.protocol_version).k = "none"
    THEN push_back(call, precondition_failure("InvalidProtocolVersion"))
    ELSE [call EXCEPT !.pc = "checkout"]

\* deploy, lines 1082-1086, and run_execute, lines 446-450: the checkout of
\* the pre-state; Err(RootNotFound) ends the call.
checkout_step(call, committed) ==
    IF ~tracking_copy(committed, call.request.parent_state_hash).some
    THEN [call EXCEPT !.pc = "done", !.err = TRUE, !.results = <<>>]
    ELSE [call EXCEPT !.pc = "payment",
                      !.locals.tc =
                        tracking_copy(committed, call.request.parent_state_hash).tc]

\* Mutant: the deploys on one root work on one tracking copy, so a call reads
\* what another call on the same root has written.
own_tracking_copy_Shared(all_calls, c) ==
    IF \E d \in Callers \ {c} :
            /\ all_calls[d].pc \in {"session", "finalize"}
            /\ all_calls[d].request.parent_state_hash
                    = all_calls[c].request.parent_state_hash
    THEN all_calls[CHOOSE d \in Callers \ {c} :
                    /\ all_calls[d].pc \in {"session", "finalize"}
                    /\ all_calls[d].request.parent_state_hash
                            = all_calls[c].request.parent_state_hash].locals.tc
    ELSE all_calls[c].locals.tc

\* deploy, line 1084: the tracking copy is created by the call and held in
\* an Rc of its own.
own_tracking_copy(all_calls, c) == all_calls[c].locals.tc

\* deploy, lines 1325-1421: after the payment code, the forced transfer or
\* the locals the session starts from.
after_payment(call, tc, account, paid, proposer_account) ==
    IF TCRead(paid.tc, KHash("pos")).k # "Contract"
    THEN push_back(call, precondition_failure("Exec"))
    ELSE IF ~HasBalance(paid.tc, POS_PAYMENT_PURSE)
    THEN push_back(call, precondition_failure("Exec"))
    ELSE IF proposer_account.k # "Account"
    THEN push_back(call, precondition_failure("Exec"))
    ELSE IF check_forced_transfer(paid.result, Balance(paid.tc, POS_PAYMENT_PURSE)) # "None"
    THEN push_back(call,
                   forced_transfer_result(
                        paid.tc,
                        check_forced_transfer(paid.result,
                                              Balance(paid.tc, POS_PAYMENT_PURSE)),
                        paid.result, Balance(tc, account.main_purse), account,
                        proposer_account))
    ELSE [call EXCEPT !.pc = "session",
                      !.locals = [tc |-> paid.tc, account |-> account,
                                  payment_result |-> paid.result,
                                  payment_purse_balance |->
                                        Balance(paid.tc, POS_PAYMENT_PURSE),
                                  proposer_purse |-> proposer_account.main_purse,
                                  session_result |-> NoResult]]

\* deploy, lines 1198-1322: the payment code runs on the tracking copy.
run_payment(call, tc, account, paid) ==
    after_payment(call, tc, account, paid, TCRead(paid.tc, KAccount(call.request.proposer)))

\* deploy, lines 1103-1196: the preconditions checked on the tracking copy.
authorized_step(call, tc, authorized) ==
    IF ~authorized.ok THEN push_back(call, precondition_failure(authorized.error))
    ELSE IF CallItem(call).meta = "bad_session"
    THEN push_back(call, precondition_failure("Exec"))
    ELSE IF ~HasBalance(tc, authorized.account.main_purse)
    THEN push_back(call, precondition_failure("Exec"))
    ELSE IF insufficient_main_purse(Balance(tc, authorized.account.main_purse))
    THEN push_back(call, precondition_failure("InsufficientPayment"))
    ELSE IF CallItem(call).meta = "bad_payment"
    THEN push_back(call, precondition_failure("Exec"))
    ELSE run_payment(call, tc, authorized.account,
                     ExecPayment(tc, authorized.account, CallItem(call).payment,
                                 MAX_PAYMENT \div CONV_RATE))

\* deploy, lines 1103-1421: preconditions and payment phase.
payment_step(call, tc) ==
    authorized_step(call, tc,
                    get_authorized_account(tc, CallItem(call).address,
                                           CallItem(call).authorization_keys))

\* deploy, lines 1518-1546: DeployInfo is written through the session
\* tracking copy; finalize starts from the session copy or, after a failure,
\* from the post-payment copy.
after_session(call, tc, ran, deploy_info) ==
    [call EXCEPT
        !.pc = "finalize",
        !.locals.tc =
            post_session_rc(ran.result.tag = "Failure", tc,
                            TCWrite(ran.tc, KDeployInfo(CallItem(call).deploy_hash),
                                    deploy_info)),
        !.locals.session_result =
            session_with_effect(ran.result,
                                TCWrite(ran.tc, KDeployInfo(CallItem(call).deploy_hash),
                                        deploy_info))]

\* deploy, lines 1518-1533
session_deploy_info(call, ran) ==
    DeployInfoValue(CallItem(call).deploy_hash, ran.result.transfers,
                    CallItem(call).address, call.locals.account.main_purse,
                    call.locals.payment_result.cost + ran.result.cost)

run_session(call, tc, ran) == after_session(call, tc, ran, session_deploy_info(call, ran))

\* deploy, lines 1426-1546: the session phase on a fork of the post-payment
\* tracking copy.
session_step(call, tc) ==
    run_session(call, tc,
                ExecSession(TCFork(tc), CallItem(call).session,
                            session_gas_limit(call.locals.payment_purse_balance,
                                              call.locals.payment_result.cost)))

\* deploy, lines 1548-1623: finalize on a fork of the post-session tracking
\* copy and the merge of the three results.
finalize_step(call, tc) ==
    IF TCRead(TCFork(tc), KHash("pos")).k # "Contract"
    THEN push_back(call, precondition_failure("Exec"))
    ELSE push_back(call,
                   build(call.locals.payment_result, call.locals.session_result,
                         ExecFinalize(TCFork(tc),
                                      finalize_cost_motes(call.locals.payment_result,
                                                          call.locals.session_result),
                                      CallItem(call).address, call.locals.proposer_purse,
                                      CallItem(call).finalize_traps).result))

\* The step a call in flight takes next.
call_step(all_calls, c, pdata, committed) ==
    IF all_calls[c].pc = "item" THEN item_step(all_calls[c])
    ELSE IF all_calls[c].pc = "get_protocol_data"
    THEN get_protocol_data_step(all_calls[c], pdata)
    ELSE IF all_calls[c].pc = "checkout" THEN checkout_step(all_calls[c], committed)
    ELSE IF all_calls[c].pc = "payment"
    THEN payment_step(all_calls[c], own_tracking_copy(all_calls, c))
    ELSE IF all_calls[c].pc = "session"
    THEN session_step(all_calls[c], own_tracking_copy(all_calls, c))
    ELSE finalize_step(all_calls[c], own_tracking_copy(all_calls, c))

\* Deploy items of the calls that run side by side: a deploy that succeeds,
\* one whose session fails, one that ends in the forced transfer, one that is
\* not authorized, and an item that arrived failed.
InterleavedItems ==
    {Item("deploy", "A", FullAuth, "ok", DefaultPayment, s, "A", 0, FALSE) :
        s \in {DefaultSession, [gas |-> 1, fails |-> TRUE]}}
    \cup {Item("deploy", "A", FullAuth, "ok", [DefaultPayment EXCEPT !.amount = 0],
               DefaultSession, "A", 0, FALSE),
          Item("deploy", "A", {"K1"}, "ok", DefaultPayment, DefaultSession, "A", 0, FALSE),
          FailedItem}

PlainDeploy ==
    Item("deploy", "A", FullAuth, "ok", DefaultPayment, DefaultSession, "A", 0, FALSE)

InterleavedLists ==
    {<<d>> : d \in InterleavedItems} \cup {<<PlainDeploy, d>> : d \in InterleavedItems}

\* Requests of the calls that run side by side: every list on every stored
\* root at the version of genesis, one request at the other version and one
\* on a root the store does not hold.
InterleavedRequests(committed) ==
    [parent_state_hash : committed, protocol_version : GenesisVersions,
     proposer : {"P"}, deploys : InterleavedLists]
    \cup [parent_state_hash : committed, protocol_version : Versions \ GenesisVersions,
          proposer : {"P"}, deploys : {<<FailedItem, PlainDeploy>>}]
    \cup [parent_state_hash : {MissingRoot}, protocol_version : GenesisVersions,
          proposer : {"P"}, deploys : {<<FailedItem, PlainDeploy>>}]

\* EngineState::new over a store that holds the empty root.
InitInterleaved ==
    /\ roots = {EmptyState}
    /\ protocol_data = [v \in Versions |-> NoProtocolData]
    /\ last = NoCall
    /\ in_flight = NoCalls

NoneInFlight == \A c \in Callers : in_flight[c].pc = "idle"

\* EngineState::commit_genesis, before any run_execute is in flight
CommitGenesisInterleaved ==
    /\ NoneInFlight
    /\ last.op = "none"
    /\ \E ee_config \in {[fee |-> 1, balance_a |-> MAX_PAYMENT + 2, with_b |-> TRUE,
                          installer_fails |-> FALSE]} :
        LET out == commit_genesis(protocol_data, roots, 1, ee_config, "keep")
        IN  /\ roots' = out.store.roots
            /\ protocol_data' = out.store.protocol_data
            /\ last' = [op |-> "commit_genesis", version |-> 1,
                        pre |-> Store(roots, protocol_data), ret |-> out.ret]
    /\ UNCHANGED in_flight

\* A caller calls EngineState::run_execute
BeginExecute ==
    /\ \E c \in Callers, req \in InterleavedRequests(roots) :
        /\ in_flight[c].pc = "idle"
        /\ in_flight' = [in_flight EXCEPT ![c] = begin_call(req)]
    /\ UNCHANGED <<roots, protocol_data, last>>

\* One call in flight takes its next step
StepExecute ==
    /\ \E c \in Callers :
        /\ in_flight[c].pc \notin {"idle", "done"}
        /\ in_flight' =
            [in_flight EXCEPT ![c] = call_step(in_flight, c, protocol_data, roots)]
    /\ UNCHANGED <<roots, protocol_data, last>>

\* The caller takes the value run_execute returned
EndExecute ==
    /\ \E c \in Callers :
        /\ in_flight[c].pc = "done"
        /\ in_flight' = [in_flight EXCEPT ![c] = IdleCall]
    /\ UNCHANGED <<roots, protocol_data, last>>

NextInterleaved == CommitGenesisInterleaved \/ BeginExecute \/ StepExecute \/ EndExecute

SpecInterleaved == InitInterleaved /\ [][NextInterleaved]_vars

size_of(T) == CASE T = "u8" -> 1 [] T = "u16" -> 2 [] T = "u32" -> 4 [] T = "u64" -> 8

U8_SERIALIZED_LENGTH == size_of("u8")

U16_SERIALIZED_LENGTH == size_of("u16")

U32_SERIALIZED_LENGTH == size_of("u32")

U64_SERIALIZED_LENGTH == size_of("u64")

\* The bytes after the first n of a byte string.
Drop(bytes, n) == SubSeq(bytes, n + 1, Len(bytes))

Take(bytes, n) == SubSeq(bytes, 1, n)

RECURSIVE to_le_bytes(_, _)
to_le_bytes(x, width) == IF width = 0 THEN <<>> ELSE <<x % 256>> \o to_le_bytes(x \div 256, width - 1)

RECURSIVE from_le_bytes(_)
from_le_bytes(bytes) == IF bytes = <<>> THEN 0 ELSE Head(bytes) + 256 * from_le_bytes(Tail(bytes))

\* FromBytes for u8, u16, u32, u64: a short input is an EarlyEndOfStream.
int_from_bytes(width, bytes) ==
    IF Len(bytes) < width THEN Err("EarlyEndOfStream")
    ELSE Returned(<<from_le_bytes(Take(bytes, width)), Drop(bytes, width)>>)

\* FromBytes for bool: one byte, 1 or 0, anything else is a Formatting error.
bool_from_bytes(bytes) ==
    IF bytes = <<>> THEN Err("EarlyEndOfStream")
    ELSE IF Head(bytes) = 1 THEN Returned(<<TRUE, Tail(bytes)>>)
    ELSE IF Head(bytes) = 0 THEN Returned(<<FALSE, Tail(bytes)>>)
    ELSE Err("Formatting")

\* ToBytes for Bytes and Vec<u8>: the length as a u32, then the bytes.
bytes_to_bytes(data) == to_le_bytes(Len(data), U32_SERIALIZED_LENGTH) \o data

\* FromBytes for Bytes.
bytes_from_bytes(bytes) ==
    LET size == int_from_bytes(U32_SERIALIZED_LENGTH, bytes)
    IN  IF size.tag = "Err" THEN size
        ELSE IF Len(size.value[2]) < size.value[1] THEN Err("EarlyEndOfStream")
        ELSE Returned(<<Take(size.value[2], size.value[1]), Drop(size.value[2], size.value[1])>>)

\* The length of a byte array [u8; 32], which is written without a prefix.
ADDR_LENGTH == 32

\* ToBytes for Option<T>: tag 0 for None, tag 1 and the value for Some.
option_to_bytes(opt) == IF opt.some THEN <<1>> \o opt.v ELSE <<0>>

\* FromBytes for Option<[u8; 32]>.
option_from_bytes(bytes) ==
    IF bytes = <<>> THEN Err("EarlyEndOfStream")
    ELSE IF Head(bytes) = 0 THEN Returned(<<None, Tail(bytes)>>)
    ELSE IF Head(bytes) # 1 THEN Err("Formatting")
    ELSE IF Len(bytes) < 1 + ADDR_LENGTH THEN Err("EarlyEndOfStream")
    ELSE Returned(<<Some(SubSeq(bytes, 2, 1 + ADDR_LENGTH)), Drop(bytes, 1 + ADDR_LENGTH)>>)

\* TransactionRuntime: a sum without fields, one tag byte.
TransactionRuntimes == <<"VmCasperV1", "VmCasperV2">>

runtime_to_bytes(runtime) == <<CHOOSE tag \in 0..1 : TransactionRuntimes[tag + 1] = runtime>>

runtime_from_bytes(bytes) ==
    IF bytes = <<>> THEN Err("EarlyEndOfStream")
    ELSE IF Head(bytes) \in 0..1 THEN Returned(<<TransactionRuntimes[Head(bytes) + 1], Tail(bytes)>>)
    ELSE Err("Formatting")

\* TransactionInvocationTarget: by the hash of the entity or by its name.
ByHash(addr) == [variant |-> "ByHash", addr |-> addr]

ByName(name) == [variant |-> "ByName", name |-> name]

invocation_target_to_bytes(id) ==
    IF id.variant = "ByHash" THEN <<0>> \o id.addr ELSE <<1>> \o bytes_to_bytes(id.name)

invocation_target_from_bytes(bytes) ==
    IF bytes = <<>> THEN Err("EarlyEndOfStream")
    ELSE IF Head(bytes) = 0
    THEN IF Len(bytes) < 1 + ADDR_LENGTH THEN Err("EarlyEndOfStream")
         ELSE Returned(<<ByHash(SubSeq(bytes, 2, 1 + ADDR_LENGTH)), Drop(bytes, 1 + ADDR_LENGTH)>>)
    ELSE IF Head(bytes) = 1
    THEN LET name == bytes_from_bytes(Tail(bytes))
         IN  IF name.tag = "Err" THEN name
             ELSE Returned(<<ByName(name.value[1]), name.value[2]>>)
    ELSE Err("Formatting")

\* ToBytes::to_bytes and FromBytes::from_bytes of T, for the field types of
\* the values below.
field_to_bytes(T, value) ==
    CASE T = "u8" -> to_le_bytes(value, U8_SERIALIZED_LENGTH)
      [] T = "u64" -> to_le_bytes(value, U64_SERIALIZED_LENGTH)
      [] T = "bool" -> IF value THEN <<1>> ELSE <<0>>
      [] T = "Bytes" -> bytes_to_bytes(value)
      [] T = "Option<[u8; 32]>" -> option_to_bytes(value)
      [] T = "TransactionRuntime" -> runtime_to_bytes(value)
      [] T = "TransactionInvocationTarget" -> invocation_target_to_bytes(value)

field_from_bytes(T, bytes) ==
    CASE T = "u8" -> int_from_bytes(U8_SERIALIZED_LENGTH, bytes)
      [] T = "u64" -> int_from_bytes(U64_SERIALIZED_LENGTH, bytes)
      [] T = "bool" -> bool_from_bytes(bytes)
      [] T = "Bytes" -> bytes_from_bytes(bytes)
      [] T = "Option<[u8; 32]>" -> option_from_bytes(bytes)
      [] T = "TransactionRuntime" -> runtime_from_bytes(bytes)
      [] T = "TransactionInvocationTarget" -> invocation_target_from_bytes(bytes)

\* ToBytes::serialized_length of a field, as each type computes it.
field_serialized_length(T, value) ==
    CASE T = "u8" -> U8_SERIALIZED_LENGTH
      [] T = "u64" -> U64_SERIALIZED_LENGTH
      [] T = "bool" -> U8_SERIALIZED_LENGTH
      [] T = "Bytes" -> U32_SERIALIZED_LENGTH + Len(value)
      [] T = "Option<[u8; 32]>" -> U8_SERIALIZED_LENGTH + (IF value.some THEN ADDR_LENGTH ELSE 0)
      [] T = "TransactionRuntime" -> U8_SERIALIZED_LENGTH
      [] T = "TransactionInvocationTarget" -> U8_SERIALIZED_LENGTH + (IF value.variant = "ByHash" THEN ADDR_LENGTH ELSE U32_SERIALIZED_LENGTH + Len(value.name))

(***************************************************************************)
(* The calltable envelope: a vector of fields (index: u16, offset: u32)    *)
(* followed by the payload as Bytes.  The builder is given the expected    *)
(* payload size of every field and refuses a field of another size.        *)
(***************************************************************************)
FIELD_SERIALIZED_LENGTH == U16_SERIALIZED_LENGTH + U32_SERIALIZED_LENGTH

RECURSIVE SumSizes(_)
SumSizes(sizes) == IF sizes = <<>> THEN 0 ELSE Head(sizes) + SumSizes(Tail(sizes))

\* CalltableSerializationEnvelope::estimate_size
estimate_size(field_sizes) ==
    U32_SERIALIZED_LENGTH + U32_SERIALIZED_LENGTH + Len(field_sizes) * FIELD_SERIALIZED_LENGTH + SumSizes(field_sizes)

\* CalltableSerializationEnvelopeBuilder::new
new_builder(expected_payload_sizes) ==
    [error |-> "none", fields |-> <<>>, expected_payload_sizes |-> expected_payload_sizes,
     bytes |-> <<>>, current_field_index |-> 0, current_offset |-> 0]

\* CalltableSerializationEnvelopeBuilder::add_field, given the bytes the
\* value writes; a builder that already failed stays failed (the ? operator).
add_field(builder, field_index, value_bytes) ==
    IF builder.error # "none" THEN builder
    ELSE IF builder.current_field_index >= Len(builder.expected_payload_sizes)
    THEN [builder EXCEPT !.error = "Formatting"]
    ELSE IF Len(value_bytes) # builder.expected_payload_sizes[builder.current_field_index + 1]
    THEN [builder EXCEPT !.error = "NotRepresentable"]
    ELSE [builder EXCEPT !.fields = Append(@, [index |-> field_index, offset |-> builder.current_offset]),
                         !.bytes = @ \o value_bytes,
                         !.current_field_index = @ + 1,
                         !.current_offset = @ + Len(value_bytes)]

RECURSIVE fields_to_bytes(_)
fields_to_bytes(fields) ==
    IF fields = <<>> THEN <<>>
    ELSE to_le_bytes(Head(fields).index, U16_SERIALIZED_LENGTH)
         \o to_le_bytes(Head(fields).offset, U32_SERIALIZED_LENGTH) \o fields_to_bytes(Tail(fields))

\* CalltableSerializationEnvelopeBuilder::binary_payload_bytes
binary_payload_bytes(builder) ==
    IF builder.error # "none" THEN Err(builder.error)
    ELSE IF builder.current_field_index # Len(builder.expected_payload_sizes) THEN Err("Formatting")
    ELSE Returned(to_le_bytes(Len(builder.fields), U32_SERIALIZED_LENGTH)
                  \o fields_to_bytes(builder.fields) \o bytes_to_bytes(builder.bytes))

RECURSIVE fields_from_bytes(_, _, _)
fields_from_bytes(count, bytes, fields) ==
    IF count = 0 THEN Returned(<<fields, bytes>>)
    ELSE IF Len(bytes) < FIELD_SERIALIZED_LENGTH THEN Err("EarlyEndOfStream")
    ELSE fields_from_bytes(count - 1, Drop(bytes, FIELD_SERIALIZED_LENGTH),
                           Append(fields, [index |-> from_le_bytes(Take(bytes, U16_SERIALIZED_LENGTH)),
                                           offset |-> from_le_bytes(SubSeq(bytes, 3, FIELD_SERIALIZED_LENGTH))]))

\* The payload that follows the fields of an envelope.
envelope_payload(fields, remainder) ==
    IF bytes_from_bytes(remainder).tag = "Err" THEN bytes_from_bytes(remainder)
    ELSE Returned(<<[fields |-> fields, bytes |-> bytes_from_bytes(remainder).value[1]],
                    bytes_from_bytes(remainder).value[2]>>)

\* CalltableSerializationEnvelope::from_bytes
envelope_from_bytes(max_expected_fields, input_bytes) ==
    LET number_of_fields == int_from_bytes(U32_SERIALIZED_LENGTH, input_bytes)
        fields == fields_from_bytes(number_of_fields.value[1], number_of_fields.value[2], <<>>)
    IN  IF number_of_fields.tag = "Err" THEN Err("Formatting")
        ELSE IF number_of_fields.value[1] > max_expected_fields THEN Err("Formatting")
        ELSE IF fields.tag = "Err" THEN fields
        ELSE envelope_payload(fields.value[1], fields.value[2])

\* A window on one field of an envelope; the position counts from 1.
Window(envelope, index_in_fields_vec) == [envelope |-> envelope, index_in_fields_vec |-> index_in_fields_vec]

\* CalltableSerializationEnvelope::start_consuming
start_consuming(envelope) == IF envelope.fields = <<>> THEN None ELSE Some(Window(envelope, 1))

WindowField(window) == window.envelope.fields[window.index_in_fields_vec]

\* The bytes of the window's field: up to the offset of the next field, or
\* to the end of the payload for the last field.
WindowEnd(window) ==
    IF window.index_in_fields_vec < Len(window.envelope.fields)
    THEN window.envelope.fields[window.index_in_fields_vec + 1].offset
    ELSE Len(window.envelope.bytes)

\* CalltableSerializationEnvelopeWindow::verify_index
verify_index(window, expected_index) == WindowField(window).index = expected_index

NextWindow(window) ==
    IF window.index_in_fields_vec < Len(window.envelope.fields)
    THEN Some(Window(window.envelope, window.index_in_fields_vec + 1))
    ELSE None

\* The value parsed from the bytes of one field, which must use them all.
whole_field(parsed, window) ==
    IF parsed.tag = "Err" THEN parsed
    ELSE IF parsed.value[2] # <<>> THEN Err("Formatting")
    ELSE Returned(<<parsed.value[1], NextWindow(window)>>)

\* CalltableSerializationEnvelopeWindow::deserialize_and_maybe_next::<T>
deserialize_and_maybe_next(window, T) ==
    IF WindowEnd(window) < WindowField(window).offset \/ WindowEnd(window) > Len(window.envelope.bytes)
    THEN Err("Formatting")
    ELSE whole_field(field_from_bytes(T, SubSeq(window.envelope.bytes, WindowField(window).offset + 1, WindowEnd(window))), window)

\* The fields after the tag, read in turn as from_bytes reads them:
\* window.ok_or(Formatting)?, verify_index, deserialize_and_maybe_next, and a
\* window left after the last field is a Formatting error.
RECURSIVE read_fields(_, _, _)
read_fields(window, layout, values) ==
    IF layout = <<>> THEN (IF window.some THEN Err("Formatting") ELSE Returned(values))
    ELSE IF ~window.some THEN Err("Formatting")
    ELSE IF ~verify_index(window.v, Head(layout)[1]) THEN Err("Formatting")
    ELSE LET field == deserialize_and_maybe_next(window.v, Head(layout)[2])
         IN  IF field.tag = "Err" THEN field
             ELSE read_fields(field.value[2], Tail(layout), Append(values, field.value[1]))

(***************************************************************************)
(* TransactionTarget and its serialization.                                *)
(***************************************************************************)
Native == [variant |-> "Native"]

Stored(id, runtime, transferred_value) == [variant |-> "Stored", id |-> id, runtime |-> runtime, transferred_value |-> transferred_value]

SessionTarget(is_install_upgrade, runtime, module_bytes, transferred_value, seed) == [variant |-> "Session", is_install_upgrade |-> is_install_upgrade, runtime |-> runtime, module_bytes |-> module_bytes, transferred_value |-> transferred_value, seed |-> seed]

\* The field lengths of a Session target in the order the fields are bound,
\* which is not the order in which they are written.
serialized_field_lengths_BoundOrder(target) ==
    CASE target.variant = "Native" -> <<U8_SERIALIZED_LENGTH>>
      [] target.variant = "Stored" ->
            <<U8_SERIALIZED_LENGTH,
              field_serialized_length("TransactionInvocationTarget", target.id),
              field_serialized_length("TransactionRuntime", target.runtime),
              field_serialized_length("u64", target.transferred_value)>>
      [] target.variant = "Session" ->
            <<U8_SERIALIZED_LENGTH,
              field_serialized_length("bool", target.is_install_upgrade),
              field_serialized_length("TransactionRuntime", target.runtime),
              field_serialized_length("u64", target.transferred_value),
              field_serialized_length("Option<[u8; 32]>", target.seed),
              field_serialized_length("Bytes", target.module_bytes)>>

\* TransactionTarget::serialized_field_lengths
serialized_field_lengths(target) ==
    CASE target.variant = "Native" -> <<U8_SERIALIZED_LENGTH>>
      [] target.variant = "Stored" ->
            <<U8_SERIALIZED_LENGTH,
              field_serialized_length("TransactionInvocationTarget", target.id),
              field_serialized_length("TransactionRuntime", target.runtime),
              field_serialized_length("u64", target.transferred_value)>>
      [] target.variant = "Session" ->
            <<U8_SERIALIZED_LENGTH,
              field_serialized_length("bool", target.is_install_upgrade),
              field_serialized_length("TransactionRuntime", target.runtime),
              field_serialized_length("Bytes", target.module_bytes),
              field_serialized_length("u64", target.transferred_value),
              field_serialized_length("Option<[u8; 32]>", target.seed)>>

TAG_FIELD_INDEX == 0

NATIVE_VARIANT == 0

STORED_VARIANT == 1

STORED_ID_INDEX == 1

STORED_RUNTIME_INDEX == 2

STORED_TRANSFERRED_VALUE_INDEX == 3

SESSION_VARIANT == 2

SESSION_IS_INSTALL_INDEX == 1

SESSION_RUNTIME_INDEX == 2

SESSION_MODULE_BYTES_INDEX == 3

SESSION_TRANSFERRED_VALUE_INDEX == 4

SESSION_SEED_INDEX == 5

\* impl ToBytes for TransactionTarget: to_bytes
TransactionTarget_to_bytes(target) ==
    CASE target.variant = "Native" ->
            binary_payload_bytes(
                add_field(new_builder(serialized_field_lengths(target)),
                          TAG_FIELD_INDEX, field_to_bytes("u8", NATIVE_VARIANT)))
      [] target.variant = "Stored" ->
            binary_payload_bytes(
                add_field(add_field(add_field(add_field(new_builder(serialized_field_lengths(target)),
                          TAG_FIELD_INDEX, field_to_bytes("u8", STORED_VARIANT)),
                          STORED_ID_INDEX, field_to_bytes("TransactionInvocationTarget", target.id)),
                          STORED_RUNTIME_INDEX, field_to_bytes("TransactionRuntime", target.runtime)),
                          STORED_TRANSFERRED_VALUE_INDEX, field_to_bytes("u64", target.transferred_value)))
      [] target.variant = "Session" ->
            binary_payload_bytes(
                add_field(add_field(add_field(add_field(add_field(add_field(
                          new_builder(serialized_field_lengths(target)),
                          TAG_FIELD_INDEX, field_to_bytes("u8", SESSION_VARIANT)),
                          SESSION_IS_INSTALL_INDEX, field_to_bytes("bool", target.is_install_upgrade)),
                          SESSION_RUNTIME_INDEX, field_to_bytes("TransactionRuntime", target.runtime)),
                          SESSION_MODULE_BYTES_INDEX, field_to_bytes("Bytes", target.module_bytes)),
                          SESSION_TRANSFERRED_VALUE_INDEX, field_to_bytes("u64", target.transferred_value)),
                          SESSION_SEED_INDEX, field_to_bytes("Option<[u8; 32]>", target.seed)))

\* impl ToBytes for TransactionTarget: serialized_length
TransactionTarget_serialized_length(target) == estimate_size(serialized_field_lengths(target))

\* The fields from_bytes reads after the tag, by variant.
VariantLayout(tag) ==
    CASE tag = NATIVE_VARIANT -> <<>>
      [] tag = STORED_VARIANT ->
            <<<<STORED_ID_INDEX, "TransactionInvocationTarget">>,
              <<STORED_RUNTIME_INDEX, "TransactionRuntime">>,
              <<STORED_TRANSFERRED_VALUE_INDEX, "u64">>>>
      [] tag = SESSION_VARIANT ->
            <<<<SESSION_IS_INSTALL_INDEX, "bool">>,
              <<SESSION_RUNTIME_INDEX, "TransactionRuntime">>,
              <<SESSION_MODULE_BYTES_INDEX, "Bytes">>,
              <<SESSION_TRANSFERRED_VALUE_INDEX, "u64">>,
              <<SESSION_SEED_INDEX, "Option<[u8; 32]>">>>>

\* The target from_bytes builds from the fields it read.
VariantOf(tag, values) ==
    CASE tag = NATIVE_VARIANT -> Native
      [] tag = STORED_VARIANT -> Stored(values[1], values[2], values[3])
      [] tag = SESSION_VARIANT -> SessionTarget(values[1], values[2], values[3], values[4], values[5])

\* The match on the tag in from_bytes; an unknown tag is a Formatting error.
match_tag(tag, window, remainder) ==
    IF tag \notin {NATIVE_VARIANT, STORED_VARIANT, SESSION_VARIANT} THEN Err("Formatting")
    ELSE LET values == read_fields(window, VariantLayout(tag), <<>>)
         IN  IF values.tag = "Err" THEN values
             ELSE Returned(<<VariantOf(tag, values.value), remainder>>)

\* from_bytes once the envelope is parsed: the tag field, then the match.
consume_envelope(binary_payload, remainder) ==
    LET window == start_consuming(binary_payload)
        tag == deserialize_and_maybe_next(window.v, "u8")
    IN  IF ~window.some THEN Err("Formatting")
        ELSE IF ~verify_index(window.v, TAG_FIELD_INDEX) THEN Err("Formatting")
        ELSE IF tag.tag = "Err" THEN tag
        ELSE match_tag(tag.value[1], tag.value[2], remainder)

\* impl FromBytes for TransactionTarget: from_bytes
TransactionTarget_from_bytes(bytes) ==
    LET envelope == envelope_from_bytes(6, bytes)
    IN  IF envelope.tag = "Err" THEN envelope
        ELSE consume_envelope(envelope.value[1], envelope.value[2])

(***************************************************************************)
(* OriginalRequestSpec of the binary port and its serialization.           *)
(***************************************************************************)
OriginalRequestSpec(id, data) == [id |-> id, data |-> data]

\* ToBytes::write_bytes appends to the writer the id, then the data.
write_bytes(spec, writer) == writer \o to_le_bytes(spec.id, U64_SERIALIZED_LENGTH) \o bytes_to_bytes(spec.data)

\* impl ToBytes for OriginalRequestSpec: to_bytes
OriginalRequestSpec_to_bytes(spec) == Returned(write_bytes(spec, <<>>))

\* impl ToBytes for OriginalRequestSpec: serialized_length
OriginalRequestSpec_serialized_length(spec) == U64_SERIALIZED_LENGTH + (U32_SERIALIZED_LENGTH + Len(spec.data))

\* The data that follows the id in from_bytes.
data_from_bytes(id, remainder) ==
    LET data == bytes_from_bytes(remainder)
    IN  IF data.tag = "Err" THEN data
        ELSE Returned(<<OriginalRequestSpec(id, data.value[1]), data.value[2]>>)

\* impl FromBytes for OriginalRequestSpec: from_bytes
OriginalRequestSpec_from_bytes(bytes) ==
    LET id == int_from_bytes(U64_SERIALIZED_LENGTH, bytes)
    IN  IF id.tag = "Err" THEN id ELSE data_from_bytes(id.value[1], id.value[2])

(***************************************************************************)
(* The codec applied to bounded values: a value is serialized, the bytes   *)
(* may be followed by further bytes of the stream they travel in, and the  *)
(* input is deserialized.                                                  *)
(***************************************************************************)
MaxDataLen == 2

ByteSamples == {0, 1, 255}

RECURSIVE ByteStrings(_)
ByteStrings(n) == IF n = 0 THEN {<<>>} ELSE ByteStrings(n - 1) \cup {Append(s, b) : s \in {t \in ByteStrings(n - 1) : Len(t) = n - 1}, b \in ByteSamples}

U64Samples == {0, 258, 2130706437}

AddrSamples == {[i \in 1..ADDR_LENGTH |-> 0], [i \in 1..ADDR_LENGTH |-> i]}

InvocationTargets == {ByHash(addr) : addr \in AddrSamples} \cup {ByName(name) : name \in ByteStrings(MaxDataLen)}

TransactionTargets ==
    {Native}
    \cup {Stored(id, runtime, transferred_value) :
            id \in InvocationTargets, runtime \in {"VmCasperV1", "VmCasperV2"}, transferred_value \in U64Samples}
    \cup {SessionTarget(is_install_upgrade, runtime, module_bytes, transferred_value, seed) :
            is_install_upgrade \in BOOLEAN, runtime \in {"VmCasperV1", "VmCasperV2"},
            module_bytes \in ByteStrings(MaxDataLen), transferred_value \in U64Samples,
            seed \in {None} \cup {Some(addr) : addr \in AddrSamples}}

OriginalRequestSpecs == {OriginalRequestSpec(id, data) : id \in U64Samples, data \in ByteStrings(MaxDataLen)}

\* The bytes that may follow a serialized value in its stream.
Trailing == {<<0>>, <<1, 255>>}

to_bytes(T, value) ==
    IF T = "TransactionTarget" THEN TransactionTarget_to_bytes(value) ELSE OriginalRequestSpec_to_bytes(value)

serialized_length(T, value) ==
    IF T = "TransactionTarget" THEN TransactionTarget_serialized_length(value)
    ELSE OriginalRequestSpec_serialized_length(value)

from_bytes(T, bytes) ==
    IF T = "TransactionTarget" THEN TransactionTarget_from_bytes(bytes) ELSE OriginalRequestSpec_from_bytes(bytes)

InitCodec ==
    /\ roots = {EmptyState}
    /\ protocol_data = [v \in Versions |-> NoProtocolData]
    /\ in_flight = NoCalls
    /\ \/ \E value \in TransactionTargets : last = [op |-> "value", T |-> "TransactionTarget", value |-> value]
       \/ \E value \in OriginalRequestSpecs : last = [op |-> "value", T |-> "OriginalRequestSpec", value |-> value]

\* to_bytes and serialized_length of the value.
ToBytes ==
    /\ last.op = "value"
    /\ last' = [op |-> "to_bytes", T |-> last.T, value |-> last.value,
                bytes |-> to_bytes(last.T, last.value),
                length |-> serialized_length(last.T, last.value),
                input |-> IF to_bytes(last.T, last.value).tag = "Err" THEN <<>>
                          ELSE to_bytes(last.T, last.value).value,
                rest |-> <<>>]
    /\ UNCHANGED <<roots, protocol_data, in_flight>>

\* The serialized value arrives with further bytes of the stream behind it.
Receive ==
    /\ last.op = "to_bytes"
    /\ last.bytes.tag = "Ok"
    /\ last.rest = <<>>
    /\ \E more \in Trailing : last' = [last EXCEPT !.input = @ \o more, !.rest = more]
    /\ UNCHANGED <<roots, protocol_data, in_flight>>

\* from_bytes of the input.
FromBytes ==
    /\ last.op = "to_bytes"
    /\ last.bytes.tag = "Ok"
    /\ last' = [op |-> "from_bytes", T |-> last.T, value |-> last.value, bytes |-> last.bytes,
                length |-> last.length, input |-> last.input, rest |-> last.rest,
                ret |-> from_bytes(last.T, last.input)]
    /\ UNCHANGED <<roots, protocol_data, in_flight>>

NextCodec == ToBytes \/ Receive \/ FromBytes

SpecCodec == InitCodec /\ [][NextCodec]_vars

\* C27: for every TransactionTarget (Native, Stored, Session) and every
\* OriginalRequestSpec v, to_bytes(v) succeeds, serialized_length(v) is the
\* length of to_bytes(v), and from_bytes of to_bytes(v) returns v with an
\* empty remainder (and, when the stream holds more bytes, v with exactly
\* those bytes as the remainder).
C27_CodecRoundTrip ==
    last.op \in {"to_bytes", "from_bytes"} =>
        /\ last.bytes.tag = "Ok"
        /\ last.length = Len(last.bytes.value)
        /\ last.op = "from_bytes" => last.ret = Returned(<<last.value, last.rest>>)

\* C27 witness: a Session target with module bytes and a seed was serialized
\* and deserialized from exactly its bytes.
C27_Witness ==
    /\ last.op = "from_bytes"
    /\ last.T = "TransactionTarget"
    /\ last.value.variant = "Session"
    /\ last.value.seed.some
    /\ Len(last.value.module_bytes) = MaxDataLen
    /\ last.input = last.bytes.value
    /\ last.ret.tag = "Ok"
    /\ last.ret.value[2] = <<>>

(***************************************************************************)
(* Shutdown for an upgrade.  A network of two validating nodes finalizes   *)
(* blocks; every node receives each finalized block as a request to        *)
(* enqueue it for execution, executes it and stores it.  An upgrade is     *)
(* announced for the start of an era, and a filter on the node's events    *)
(* delays the execution request of the switch block of era 1 once.         *)
(*   last      the height of the block consensus finalized last            *)
(*   in_flight for every node its reactor: state, upgrade, event queue,    *)
(*             delayed event, execution queue, stored height, exit code    *)
(***************************************************************************)
NETWORK_SIZE == 2

Nodes == 1..NETWORK_SIZE

\* core_config.minimum_era_height with era_duration 0: every era after the
\* genesis era has this many blocks.
minimum_era_height == 2

MaxUpgradeEra == 3

\* The eras an upgrade may be scheduled for.
UpgradeEras == 2..MaxUpgradeEra

\* The height of the switch block of an era, and the era of a block: the
\* genesis block is the only block of era 0, the switch block of era 1 has
\* height 2.
SwitchHeight(era) == era * minimum_era_height

MaxHeight == SwitchHeight(MaxUpgradeEra)

era_id(height) == (height + minimum_era_height - 1) \div minimum_era_height

is_switch_block(height) == height = SwitchHeight(era_id(height))

\* The era the filter of the test delays the switch block of.
DelayedEra == 1

NewNode ==
    [state |-> "Initialize", next_upgrade |-> None, filter_set |-> FALSE,
     exec_request_received |-> FALSE, events |-> <<>>, delayed |-> None,
     exec_queue |-> <<>>, finalized |-> 0, stored |-> 0, exit_code |-> None]

Running(node) == ~node.exit_code.some

\* ActivationPoint::should_upgrade: the upgrade is due after this era.
should_upgrade_after(next_upgrade, era) == next_upgrade.some /\ era + 1 >= next_upgrade.v

\* The node shuts down as soon as consensus finalized the last block before
\* the upgrade, whether or not the node executed it.
should_shutdown_for_upgrade_OnFinalized(node) ==
    is_switch_block(node.finalized) /\ should_upgrade_after(node.next_upgrade, era_id(node.finalized))

\* MainReactor::should_shutdown_for_upgrade: the highest block the node
\* executed and stored is a switch block the upgrade is due after.
should_shutdown_for_upgrade(node) ==
    is_switch_block(node.stored) /\ should_upgrade_after(node.next_upgrade, era_id(node.stored))

\* The filter set by the test: delay the first execution request of the
\* switch block of era 1.
filter_delays(node, height) ==
    /\ node.filter_set
    /\ is_switch_block(height)
    /\ era_id(height) = DelayedEra
    /\ ~node.exec_request_received

InitNode ==
    /\ roots = {EmptyState}
    /\ protocol_data = [v \in Versions |-> NoProtocolData]
    /\ last = [finalized |-> 0]
    /\ in_flight = [n \in Nodes |-> NewNode]

\* The node leaves ReactorState::Initialize.
NodeInitialized(n) ==
    /\ in_flight[n].state = "Initialize"
    /\ in_flight' = [in_flight EXCEPT ![n].state = "Validate"]
    /\ UNCHANGED <<roots, protocol_data, last>>

\* The test announces the upgrade to every node once all are initialized,
\* and sets the filter.
AnnounceUpgrade ==
    /\ \A n \in Nodes : in_flight[n].state = "Validate" /\ ~in_flight[n].next_upgrade.some
    /\ \E era \in UpgradeEras :
          /\ last.finalized < SwitchHeight(era - 1)
          /\ in_flight' = [n \in Nodes |-> [in_flight[n] EXCEPT !.next_upgrade = Some(era), !.filter_set = TRUE]]
    /\ UNCHANGED <<roots, protocol_data, last>>

\* Consensus finalizes the next block: all validators take part, the era of
\* the block has started on each of them, and no era starts at an upgrade.
FinalizeBlock ==
    /\ last.finalized < MaxHeight
    /\ \A n \in Nodes :
          /\ Running(in_flight[n])
          /\ in_flight[n].state = "Validate"
          /\ in_flight[n].stored >= SwitchHeight(era_id(last.finalized + 1) - 1)
          /\ ~should_upgrade_after(in_flight[n].next_upgrade, era_id(last.finalized + 1) - 1)
    /\ last' = [finalized |-> last.finalized + 1]
    /\ in_flight' = [n \in Nodes |-> [in_flight[n] EXCEPT !.finalized = last.finalized + 1, !.events = Append(@, last.finalized + 1)]]
    /\ UNCHANGED <<roots, protocol_data>>

\* The reactor takes ContractRuntimeRequest::EnqueueBlockForExecution from
\* its queue; the filter delays it or lets it through.
DispatchEvent(n) ==
    /\ Running(in_flight[n])
    /\ in_flight[n].events # <<>>
    /\ in_flight' = [in_flight EXCEPT ![n] =
          IF filter_delays(in_flight[n], Head(in_flight[n].events))
          THEN [@ EXCEPT !.events = Tail(@), !.exec_request_received = TRUE, !.delayed = Some(Head(in_flight[n].events))]
          ELSE [@ EXCEPT !.events = Tail(@), !.exec_queue = Append(@, Head(in_flight[n].events))]]
    /\ UNCHANGED <<roots, protocol_data, last>>

\* The sleep of the delayed event ends and the event is scheduled again.
DelayElapsed(n) ==
    /\ Running(in_flight[n])
    /\ in_flight[n].delayed.some
    /\ in_flight' = [in_flight EXCEPT ![n].events = Append(@, in_flight[n].delayed.v), ![n].delayed = None]
    /\ UNCHANGED <<roots, protocol_data, last>>

\* The contract runtime executes the next block and the node stores it.
ExecuteBlock(n) ==
    /\ Running(in_flight[n])
    /\ in_flight[n].exec_queue # <<>>
    /\ Head(in_flight[n].exec_queue) = in_flight[n].stored + 1
    /\ in_flight' = [in_flight EXCEPT ![n].exec_queue = Tail(@), ![n].stored = @ + 1]
    /\ UNCHANGED <<roots, protocol_data, last>>

\* The control logic of the reactor decides to shut down for the upgrade.
ControlLogic(n) ==
    /\ Running(in_flight[n])
    /\ in_flight[n].state = "Validate"
    /\ should_shutdown_for_upgrade(in_flight[n])
    /\ in_flight' = [in_flight EXCEPT ![n].state = "ShutdownForUpgrade"]
    /\ UNCHANGED <<roots, protocol_data, last>>

\* The runner of a node that shuts down for the upgrade exits.
ExitForUpgrade(n) ==
    /\ Running(in_flight[n])
    /\ in_flight[n].state = "ShutdownForUpgrade"
    /\ in_flight' = [in_flight EXCEPT ![n].exit_code = Some("Success")]
    /\ UNCHANGED <<roots, protocol_data, last>>

NodeStep(n) ==
    \/ NodeInitialized(n)
    \/ DispatchEvent(n)
    \/ DelayElapsed(n)
    \/ ExecuteBlock(n)
    \/ ControlLogic(n)
    \/ ExitForUpgrade(n)

NextNode == AnnounceUpgrade \/ FinalizeBlock \/ \E n \in Nodes : NodeStep(n)

\* The runner keeps cranking every reactor, timers end, and consensus keeps
\* finalizing while its validators run: no step stays enabled for ever.
FairNode ==
    /\ WF_vars(FinalizeBlock)
    /\ \A n \in Nodes :
          /\ WF_vars(NodeInitialized(n))
          /\ WF_vars(DispatchEvent(n))
          /\ WF_vars(DelayElapsed(n))
          /\ WF_vars(ExecuteBlock(n))
          /\ WF_vars(ControlLogic(n))
          /\ WF_vars(ExitForUpgrade(n))

SpecNode == InitNode /\ [][NextNode]_vars /\ FairNode

\* The node stored the switch block of the era before its upgrade.
SwitchBlockStored(node) == node.next_upgrade.some /\ node.stored >= SwitchHeight(node.next_upgrade.v - 1)

ShutDown(node) == node.state = "ShutdownForUpgrade" \/ node.exit_code.some

ALICE == 0

BOB == 1

ValidatorIndexes == {ALICE, BOB}

ALICE_NODE_ID == "alice_node"

BOB_NODE_ID == "bob_node"

NodeIds == {ALICE_NODE_ID, BOB_NODE_ID}

INSTANCE_ID == 123

ACTION_ID_VERTEX == "vertex"

MaxMessages == 2

\* A signed wire unit with the panorama [N, N] of the tests: its creator,
\* the key it is signed with, its instance, its value and sequence number.
WireUnits == [creator : ValidatorIndexes, signer : ValidatorIndexes, instance_id : {INSTANCE_ID, 0}, value : {"none", "a", "b"}, seq_number : 0..1]

\* Panorama::next_seq_num of a panorama without observations.
next_seq_num == 0

\* The checks a vertex passes before it is queued: the signature is the
\* creator's, the instance is this one, the sequence number follows from the
\* panorama, and a unit that cites no block carries one.
pre_validate_vertex(unit) ==
    /\ unit.signer = unit.creator
    /\ unit.instance_id = INSTANCE_ID
    /\ unit.seq_number = next_seq_num
    /\ unit.value # "none"

NewHighway ==
    [active |-> None, own_units |-> {}, pending |-> <<>>, units |-> {}, messages |-> 0, queued |-> {}, emitted |-> {}]

Disconnect(sender) == [outcome |-> "Disconnect", sender |-> sender]

QueueAction(action_id) == [outcome |-> "QueueAction", action_id |-> action_id]

DoppelgangerDetected == [outcome |-> "DoppelgangerDetected"]

CreatedGossipMessage(unit) == [outcome |-> "CreatedGossipMessage", unit |-> unit]

\* A unit of the active validator counts as known when the validator made a
\* unit with that sequence number, whatever the unit is.
is_doppelganger_vertex_BySeqNumber(highway, unit) ==
    /\ highway.active = Some(unit.creator)
    /\ \A own \in highway.own_units : own.seq_number # unit.seq_number

\* Highway::is_doppelganger_vertex: the unit is signed with the key of the
\* active validator and is not a unit this instance knows as its own.
is_doppelganger_vertex(highway, unit) ==
    /\ highway.active = Some(unit.creator)
    /\ unit \notin highway.own_units

\* HighwayProtocol::handle_message for HighwayMessage::NewVertex: the
\* outcomes returned, and the instance afterwards.
handle_message(highway, sender, unit) ==
    IF ~pre_validate_vertex(unit)
    THEN [outcomes |-> <<Disconnect(sender)>>, highway |-> highway]
    ELSE [outcomes |-> <<QueueAction(ACTION_ID_VERTEX)>>,
          highway |-> [highway EXCEPT !.pending = Append(@, unit)]]

\* HighwayProtocol::handle_action(ACTION_ID_VERTEX): the next pending vertex
\* is a doppelganger's, is known already, or is added to the state.
handle_action(highway) ==
    IF highway.pending = <<>> THEN [outcomes |-> <<>>, highway |-> highway]
    ELSE IF is_doppelganger_vertex(highway, Head(highway.pending))
    THEN [outcomes |-> <<DoppelgangerDetected>>, highway |-> [highway EXCEPT !.pending = Tail(@)]]
    ELSE IF Head(highway.pending) \in highway.units
    THEN [outcomes |-> <<>>, highway |-> [highway EXCEPT !.pending = Tail(@)]]
    ELSE [outcomes |-> <<CreatedGossipMessage(Head(highway.pending))>>,
          highway |-> [highway EXCEPT !.pending = Tail(@), !.units = @ \cup {Head(highway.pending)}]]

\* The outcomes as a set, to record them as emitted.
Range(outcomes) == {outcomes[i] : i \in 1..Len(outcomes)}

InitHighway ==
    /\ roots = {EmptyState}
    /\ protocol_data = [v \in Versions |-> NoProtocolData]
    /\ last = NewHighway
    /\ in_flight = <<>>

\* HighwayProtocol::activate_validator for ALICE.
ActivateValidator ==
    /\ ~last.active.some
    /\ last' = [last EXCEPT !.active = Some(ALICE)]
    /\ UNCHANGED <<roots, protocol_data, in_flight>>

\* The active validator creates its first unit, which the state holds.
CreateOwnUnit ==
    /\ last.active.some
    /\ last.own_units = {}
    /\ DoppelgangerDetected \notin last.emitted
    /\ \E value \in {"a", "b"} :
          LET unit == [creator |-> last.active.v, signer |-> last.active.v, instance_id |-> INSTANCE_ID, value |-> value, seq_number |-> next_seq_num]
          IN  last' = [last EXCEPT !.own_units = @ \cup {unit}, !.units = @ \cup {unit}]
    /\ UNCHANGED <<roots, protocol_data, in_flight>>

\* A peer sends a NewVertex message with a unit.
HandleMessage ==
    /\ last.messages < MaxMessages
    /\ DoppelgangerDetected \notin last.emitted
    /\ \E sender \in NodeIds, unit \in WireUnits :
          LET handled == handle_message(last, sender, unit)
              message == [unit |-> unit, sender |-> sender, active |-> last.active]
          IN  /\ last' = [handled.highway EXCEPT !.messages = @ + 1,
                                                 !.queued = IF pre_validate_vertex(unit) THEN @ \cup {message} ELSE @,
                                                 !.emitted = @ \cup Range(handled.outcomes)]
              /\ in_flight' = in_flight \o handled.outcomes
    /\ UNCHANGED <<roots, protocol_data>>

\* The driver pops QueueAction(ACTION_ID_VERTEX) and calls handle_action.
HandleAction ==
    /\ in_flight # <<>>
    /\ in_flight[Len(in_flight)] = QueueAction(ACTION_ID_VERTEX)
    /\ LET handled == handle_action(last)
       IN  /\ last' = [handled.highway EXCEPT !.emitted = @ \cup Range(handled.outcomes)]
           /\ in_flight' = SubSeq(in_flight, 1, Len(in_flight) - 1) \o handled.outcomes
    /\ UNCHANGED <<roots, protocol_data>>

\* The driver pops any other outcome.
PopOutcome ==
    /\ in_flight # <<>>
    /\ in_flight[Len(in_flight)] # QueueAction(ACTION_ID_VERTEX)
    /\ in_flight' = SubSeq(in_flight, 1, Len(in_flight) - 1)
    /\ UNCHANGED <<roots, protocol_data, last>>

NextHighway == ActivateValidator \/ CreateOwnUnit \/ HandleMessage \/ HandleAction \/ PopOutcome

SpecHighway == InitHighway /\ [][NextHighway]_vars

\* The queued vertex actions are all handled.
ActionsHandled == last.pending = <<>> /\ QueueAction(ACTION_ID_VERTEX) \notin Range(in_flight)

\* A message that brought an instance with an active validator a valid unit
\* signed with the validator's own key that the instance did not produce.
ForeignOwnUnit(message) ==
    /\ message.active.some
    /\ message.unit.creator = message.active.v
    /\ pre_validate_vertex(message.unit)
    /\ message.unit \notin last.own_units

DeployInfoAt(i) ==
    DeployInfoValue(ItemAt(i).deploy_hash, TraceAt(i).session.transfers, ItemAt(i).address,
                    PreState[KAccount(ItemAt(i).address)].main_purse,
                    TraceAt(i).payment.cost + TraceAt(i).session.cost)

\* C31 as stated: every standard deploy that reaches the session phase
\* returns an effect with a write of its DeployInfo record under
\* Key::DeployInfo(deploy_hash), whether the session succeeded or failed.
C31_DeployInfoAlwaysPersisted ==
    Executed =>
        \A i \in Positions :
            SessionRan(i) =>
                ResultAt(i).effect[KDeployInfo(ItemAt(i).deploy_hash)] = Write(DeployInfoAt(i))

\* C31 amended: the DeployInfo record is written on the session tracking
\* copy, so it is persisted with the session's effects only: a standard
\* deploy that reaches the session phase returns the write of its DeployInfo
\* record (transfers, account, main purse, cost = payment_cost +
\* session_cost) exactly when its result is a Success; when the session (or
\* finalize) failed the returned effect does not touch
\* Key::DeployInfo(deploy_hash).
C31_DeployInfoPersistedWithSession ==
    Executed =>
        \A i \in Positions :
            SessionRan(i) =>
                ResultAt(i).effect[KDeployInfo(ItemAt(i).deploy_hash)] =
                    IF ResultAt(i).tag = "Success" THEN Write(DeployInfoAt(i)) ELSE Identity

\* C31 witness: of two standard deploys that ran their three phases the
\* first succeeded and returns its DeployInfo record, the second failed in
\* the session and returns its payment and finalize effects without one.
C31_Witness ==
    /\ Executed
    /\ Len(last.ret.results) = 2
    /\ RanThreePhases(1) /\ RanThreePhases(2)
    /\ ResultAt(1).tag = "Success"
    /\ ResultAt(1).effect[KDeployInfo(ItemAt(1).deploy_hash)] = Write(DeployInfoAt(1))
    /\ TraceAt(2).session.tag = "Failure"
    /\ ResultAt(2).effect # EmptyEffect
    /\ ResultAt(2).effect[KDeployInfo(ItemAt(2).deploy_hash)] = Identity

(***************************************************************************)
(* C32: the payment purse between deploys.                                 *)
(***************************************************************************)
\* The balance of the proof of stake payment purse in a state that has one.
PaymentPurseEmpty(state) ==
    state[KBalance(POS_PAYMENT_PURSE)].k = "U512" => Motes(state, POS_PAYMENT_PURSE) = 0

\* C32: the payment purse is empty in every committed state and in the state
\* obtained by committing the result of any deploy; a native transfer that
\* charged its fee read the wasmless transfer cost in the payment purse and
\* reports exactly that fee as its payment cost.
C32_PaymentPurseEmptyBetweenDeploys ==
    /\ \A state \in roots : PaymentPurseEmpty(state)
    /\ Executed =>
        \A i \in Positions :
            /\ PaymentPurseEmpty(PostState(i))
            /\ (ItemAt(i).kind = "transfer" /\ Ran(i, "payment")) =>
                /\ Motes(PostPayment(i), POS_PAYMENT_PURSE) = WasmlessFee * CONV_RATE
                /\ TraceAt(i).payment.cost = WasmlessFee

C32_Witness ==
    /\ Executed
    /\ Len(last.ret.results) = 2
    /\ ItemAt(1).kind = "deploy"
    /\ RanThreePhases(1)
    /\ ResultAt(1).tag = "Success"
    /\ Motes(PostPayment(1), POS_PAYMENT_PURSE) = MAX_PAYMENT
    /\ TraceAt(1).finalize_amount < MAX_PAYMENT
    /\ Motes(PostState(1), POS_PAYMENT_PURSE) = 0
    /\ ItemAt(2).kind = "transfer"
    /\ ResultAt(2).tag = "Success"
    /\ WasmlessFee = 2
    /\ Motes(PostPayment(2), POS_PAYMENT_PURSE) = 2
    /\ TraceAt(2).payment.cost = 2
    /\ Motes(PostState(2), POS_PAYMENT_PURSE) = 0

(***************************************************************************)
(* C33: the account a native transfer creates.                             *)
(***************************************************************************)
\* The native transfer at position i names as target an account hash that
\* has no account in the pre-state.
TargetToCreate(i) ==
    /\ ItemAt(i).target_kind = "account"
    /\ PreState[KAccount(ItemAt(i).target)].k # "Account"

\* The accounts the transforms of an effect write.
AccountsWritten(effect) == {a \in Accounts : effect[KAccount(a)] # Identity}

\* C33: a native transfer that reaches its fee payment has created the target
\* account, with a fresh empty purse as main purse, exactly when the target
\* is an account hash without an account in the pre-state; a transfer to an
\* existing account or to a purse URef writes no account, and no result of a
\* native transfer writes any other account.
C33_TargetAccountCreated ==
    Executed =>
        \A i \in Positions :
            ItemAt(i).kind = "transfer" =>
                LET target == ItemAt(i).target
                IN  /\ Ran(i, "payment") =>
                        IF TargetToCreate(i)
                        THEN /\ TraceAt(i).payment.effect[KAccount(target)]
                                    = Write(AccountCreate(target, target))
                             /\ PostPayment(i)[KBalance(target)] = U512(0)
                             /\ AccountsWritten(TraceAt(i).payment.effect) = {target}
                        ELSE AccountsWritten(TraceAt(i).payment.effect) = {}
                    /\ AccountsWritten(ResultAt(i).effect) =
                            IF Ran(i, "payment") /\ TargetToCreate(i)
                                    /\ ResultAt(i).effect # EmptyEffect
                            THEN {target} ELSE {}

C33_Witness ==
    /\ Executed
    /\ \E i \in Positions :
        /\ ItemAt(i).kind = "transfer"
        /\ TargetToCreate(i)
        /\ ResultAt(i).tag = "Success"
        /\ ResultAt(i).effect[KAccount(ItemAt(i).target)]
                = Write(AccountCreate(ItemAt(i).target, ItemAt(i).target))
        /\ PostState(i)[KAccount(ItemAt(i).target)].main_purse = ItemAt(i).target
        /\ Motes(PostState(i), ItemAt(i).target) = ItemAt(i).amount

\* A transfer to a purse URef moved its amount and wrote no account.
TransferToPurseReached ==
    /\ Executed
    /\ \E i \in Positions :
        /\ ItemAt(i).kind = "transfer"
        /\ ItemAt(i).target_kind = "uref"
        /\ ResultAt(i).tag = "Success"
        /\ AccountsWritten(ResultAt(i).effect) = {}
        /\ Motes(PostState(i), ItemAt(i).target)
                = Motes(PreState, ItemAt(i).target) + ItemAt(i).amount

\* A transfer to a purse URef that names no purse failed with no effect.
TransferToMissingPurseReached ==
    /\ Executed
    /\ \E i \in Positions :
        /\ ItemAt(i).kind = "transfer"
        /\ ItemAt(i).target_kind = "uref"
        /\ PreState \in roots
        /\ PreState[KAccount(ItemAt(i).address)].k = "Account"
        /\ PreState[KBalance(ItemAt(i).target)].k # "U512"
        /\ ResultAt(i).tag = "Failure"
        /\ ResultAt(i).effect = EmptyEffect

(***************************************************************************)
(* C34: a minor or patch upgrade and the system contracts.                 *)
(***************************************************************************)
\* The transform commit_upgrade returns for key k: the value the config gives
\* when k is the named key of a configured value, nothing otherwise.
UpgradeOverride(k) ==
    IF k[1] = "Named" /\ k[2] \in ConfigKeys
    THEN IF last.request.new_values[k[2]].some
         THEN Write(U512(last.request.new_values[k[2]].v)) ELSE Identity
    ELSE Identity

\* C34: a successful commit_upgrade to the next minor version stores for the
\* new version (when it had none) protocol data with the four contract hashes
\* of the current version and with the wasm and system configs of the upgrade,
\* or the current ones when the upgrade gives none; the transforms it commits
\* are the given named-key values and nothing else, so no system contract is
\* touched, and with no value given post_state_hash = pre_state_hash while
\* the new version has protocol data.
C34_MinorUpgradeKeepsSystemContracts ==
    UpgradeSucceeded =>
        LET current == last.pre.protocol_data[last.request.current_protocol_version]
            new == protocol_data[last.request.new_protocol_version]
            pre_state_hash == last.request.pre_state_hash
            post_state_hash == last.ret.value.post_state_hash
        IN  /\ new.k = "ProtocolData"
            /\ last.pre.protocol_data[last.request.new_protocol_version].k = "none" =>
                /\ new.mint = current.mint
                /\ new.proof_of_stake = current.proof_of_stake
                /\ new.standard_payment = current.standard_payment
                /\ new.auction = current.auction
                /\ new.wasm_config =
                        IF last.request.wasm_config.some THEN last.request.wasm_config.v
                        ELSE current.wasm_config
                /\ new.wasmless_transfer_cost =
                        IF last.request.system_config.some THEN last.request.system_config.v
                        ELSE current.wasmless_transfer_cost
            /\ \A k \in Keys : last.ret.value.effect[k] = UpgradeOverride(k)
            /\ \A k \in Keys : k[1] = "Hash" => post_state_hash[k] = pre_state_hash[k]
            /\ last.request.new_values = NoNewValues =>
                /\ post_state_hash = pre_state_hash
                /\ roots = last.pre.roots

C34_Witness ==
    /\ UpgradeSucceeded
    /\ last.request.new_values = NoNewValues
    /\ last.request.wasm_config = Some("new_costs")
    /\ ~last.request.system_config.some
    /\ last.pre.protocol_data[last.request.new_protocol_version].k = "none"
    /\ protocol_data[last.request.new_protocol_version].wasm_config = "new_costs"
    /\ protocol_data[last.request.new_protocol_version].auction = "auction"
    /\ protocol_data[last.request.new_protocol_version].wasmless_transfer_cost
            = last.pre.protocol_data[last.request.current_protocol_version].wasmless_transfer_cost
    /\ last.ret.value.post_state_hash = last.request.pre_state_hash
    /\ roots = last.pre.roots

(***************************************************************************)
(* C35: what commit_step returns.                                          *)
(***************************************************************************)
\* The transforms of the auction calls of the last commit_step.
StepTransforms ==
    TCEffect(step_calls(tracking_copy(last.pre.roots, last.request.pre_state_hash).tc,
                        last.request).tc)

\* The outcomes the specification lists for a step that does not succeed.
ListedStepOutcomes ==
    {"InvalidProtocolVersion", "RootNotFound", "SlashingError", "DistributeError",
     "AuctionError", "EraValidatorsMissing"}

\* The outcomes commit_step returns besides them: lines 1782-1808, 1970-1978
\* and 1987-1989.
OtherStepOutcomes ==
    {"PreconditionError", "KeyNotFound", "TypeMismatch", "Serialization",
     "GetEraValidatorsError"}

\* A successful step returns the root of its committed transforms and the
\* validators get_era_validators gives at that root for next_era_id.
StepSuccessIsCommitAndNextEra ==
    (Stepped /\ StepKind = "Success") =>
        LET post_state_hash == last.ret.value.post_state_hash
            era_validators == get_era_validators(protocol_data, roots, post_state_hash,
                                                 last.request.protocol_version)
        IN  /\ StepStarted
            /\ post_state_hash = Commit(last.request.pre_state_hash, StepTransforms)
            /\ post_state_hash \in roots
            /\ era_validators.tag = "Ok"
            /\ era_validators.value[last.request.next_era_id].known
            /\ last.ret.value.next_era_validators
                    = era_validators.value[last.request.next_era_id].validators

StepPreconditionErrorReached ==
    /\ Stepped
    /\ StepKind = "PreconditionError"
    /\ last.request.pre_state_hash \in last.pre.roots

(***************************************************************************)
(* C36: the order of the checks on a bad request.                          *)
(***************************************************************************)
\* The last call named a protocol version without protocol data and a state
\* root that was never committed.
UnknownVersionAndRoot(protocol_version, state_hash) ==
    /\ last.pre.protocol_data[protocol_version].k = "none"
    /\ state_hash \notin last.pre.roots

\* C36: with an unknown protocol version and a missing root, deploy and
\* transfer return the precondition failure InvalidProtocolVersion (run_execute
\* returns Ok) and commit_step returns InvalidProtocolVersion, never
\* RootNotFound; commit_upgrade and get_era_validators check the root first
\* and return RootNotFound.
C36_CheckOrderOnBadRequest ==
    /\ (last.op = "run_execute"
        /\ UnknownVersionAndRoot(last.request.protocol_version,
                                 last.request.parent_state_hash)) =>
            /\ ~last.ret.err
            /\ \A i \in Positions :
                ItemAt(i).kind \in {"deploy", "transfer"} =>
                    ResultAt(i) = precondition_failure("InvalidProtocolVersion")
    /\ (last.op = "commit_step"
        /\ UnknownVersionAndRoot(last.request.protocol_version,
                                 last.request.pre_state_hash)) =>
            last.ret = StepOutcome("InvalidProtocolVersion")
    /\ (last.op = "commit_upgrade"
        /\ UnknownVersionAndRoot(last.request.current_protocol_version,
                                 last.request.pre_state_hash)) =>
            last.ret = Returned([k |-> "RootNotFound"])
    /\ (last.op = "get_era_validators"
        /\ UnknownVersionAndRoot(last.request.protocol_version,
                                 last.request.state_hash)) =>
            last.ret = Err("RootNotFound")

C36_Witness ==
    /\ last.op = "run_execute"
    /\ UnknownVersionAndRoot(last.request.protocol_version, last.request.parent_state_hash)
    /\ \E v \in Versions : last.pre.protocol_data[v].k # "none"
    /\ ItemAt(1).kind = "transfer"
    /\ ResultAt(1).tag = "Failure"
    /\ ResultAt(1).error = "InvalidProtocolVersion"

\* The same bad request reached commit_step, commit_upgrade and
\* get_era_validators of an engine that has protocol data for another version.
BadStepReached ==
    /\ last.op = "commit_step"
    /\ UnknownVersionAndRoot(last.request.protocol_version, last.request.pre_state_hash)
    /\ \E v \in Versions : last.pre.protocol_data[v].k # "none"

BadUpgradeReached ==
    /\ last.op = "commit_upgrade"
    /\ UnknownVersionAndRoot(last.request.current_protocol_version,
                             last.request.pre_state_hash)
    /\ \E v \in Versions : last.pre.protocol_data[v].k # "none"

BadEraValidatorsReached ==
    /\ last.op = "get_era_validators"
    /\ UnknownVersionAndRoot(last.request.protocol_version, last.request.state_hash)
    /\ \E v \in Versions : last.pre.protocol_data[v].k # "none"

BadDeployReached ==
    /\ last.op = "run_execute"
    /\ UnknownVersionAndRoot(last.request.protocol_version, last.request.parent_state_hash)
    /\ ItemAt(1).kind = "deploy"
    /\ ResultAt(1).error = "InvalidProtocolVersion"

(***************************************************************************)
(* C37: when run_execute returns Err(RootNotFound).                        *)
(***************************************************************************)
\* The positions of the request whose item is executed by deploy or transfer.
ExecutedPositions ==
    {i \in DOMAIN last.request.deploys : last.request.deploys[i].kind # "failed"}

\* C37: run_execute returns Err(RootNotFound) exactly when the request has an
\* item that is executed, a protocol version with protocol data and a
\* parent_state_hash that is no committed root; the error carries no result,
\* whatever the items before it returned; a request without executed item
\* returns Ok with one result per item also when the root does not exist.
C37_RootNotFoundOnlyWhenExecuting ==
    last.op = "run_execute" =>
        /\ last.ret.err <=>
            /\ ExecutedPositions # {}
            /\ protocol_data[last.request.protocol_version].k # "none"
            /\ PreState \notin roots
        /\ last.ret.err => last.ret.results = <<>> /\ last.ret.traces = <<>>
        /\ ExecutedPositions = {} =>
            /\ ~last.ret.err
            /\ Len(last.ret.results) = Len(last.request.deploys)
            /\ \A i \in Positions : ResultAt(i) = exec_result(ItemAt(i))

C37_Witness ==
    /\ last.op = "run_execute"
    /\ last.ret.err
    /\ PreState \notin roots
    /\ Len(last.request.deploys) = 2
    /\ last.request.deploys[1].kind = "failed"
    /\ last.request.deploys[2].kind = "deploy"
    /\ last.ret.results = <<>>

\* run_execute returned Ok for no deploy, and for a failed item alone, at a
\* root that does not exist and a version that has protocol data.
EmptyListAtMissingRootReached ==
    /\ Executed
    /\ PreState \notin roots
    /\ protocol_data[last.request.protocol_version].k # "none"
    /\ last.request.deploys = <<>>
    /\ last.ret.results = <<>>

FailedItemAtMissingRootReached ==
    /\ Executed
    /\ PreState \notin roots
    /\ protocol_data[last.request.protocol_version].k # "none"
    /\ Len(last.request.deploys) = 1
    /\ ResultAt(1) = exec_result(ItemAt(1))

(***************************************************************************)
(* C38: the session code is resolved before the payment phase.             *)
(***************************************************************************)
\* The item at position i is a standard deploy of an authorized account whose
\* session code cannot be resolved.
SessionUnresolved(i) ==
    /\ Runs(i)
    /\ ItemAt(i).kind = "deploy"
    /\ ItemAt(i).meta = "bad_session"
    /\ ~FailsUnauthorized(i)

\* C38: a standard deploy whose session code cannot be resolved is a
\* precondition failure with the error of the resolution, empty effect and
\* cost 0, whatever the balance of the account; no phase runs, its payment
\* code is not executed, and committing the result leaves the account's purse
\* and every other key as they were.
C38_SessionResolvedBeforePayment ==
    Executed =>
        \A i \in Positions :
            SessionUnresolved(i) =>
                /\ ResultAt(i) = precondition_failure("Exec")
                /\ TraceAt(i).phases = <<>>
                /\ TraceAt(i).payment.tag = "None"
                /\ PostState(i) = PreState

C38_Witness ==
    /\ Executed
    /\ \E i \in Positions :
        /\ SessionUnresolved(i)
        /\ Motes(PreState, ItemAt(i).address) >= MAX_PAYMENT
        /\ ItemAt(i).payment = DefaultPayment
        /\ ResultAt(i) = precondition_failure("Exec")
        /\ ~Ran(i, "payment")
        /\ Motes(PostState(i), ItemAt(i).address) = Motes(PreState, ItemAt(i).address)

\* The same deploy of an account that could not have paid: the failure is the
\* one of the session code, not InsufficientPayment.
SessionUnresolvedBelowPaymentReached ==
    /\ Executed
    /\ \E i \in Positions :
        /\ SessionUnresolved(i)
        /\ Motes(PreState, ItemAt(i).address) < MAX_PAYMENT
        /\ ResultAt(i).error = "Exec"

(***************************************************************************)
(* The native host of the contract SDK.  A contract runs as a function f   *)
(* under dispatch_with; its host calls go through the symbols, which act   *)
(* on the environment at the front of the thread's ENV_STACK and on the    *)
(* thread's LAST_TRAP.  `last` is the thread-local state, `in_flight` the  *)
(* dispatches that are running, innermost last.                            *)
(***************************************************************************)
MaxDepth == 2

MaxCalls == 2

DEFAULT_ADDRESS == "default_address"

ContractAddresses == {"c1", "c2"}

ReturnData == {"r1", "r2"}

\* Environment: the fields a clone does not share (db and manifests are
\* shared handles).
EnvironmentOf(input_data, contract_address, caller) ==
    [input_data |-> input_data, contract_address |-> contract_address, caller |-> caller]

\* Environment::default
DefaultEnvironment == EnvironmentOf(None, None, DEFAULT_ADDRESS)

\* The environments a test dispatches a contract with.
Environments == {DefaultEnvironment, EnvironmentOf(None, Some("c1"), DEFAULT_ADDRESS)}

\* NativeTrap::Return(flags, data)
NativeTrapReturn(data) == [k |-> "Return", data |-> data]

\* The thread-local LAST_TRAP and ENV_STACK as created, and the result of the
\* dispatch that returned last.
NewHost == [last_trap |-> None, env_stack |-> <<>>, returned |-> None]

\* VecDeque::front of the stack, if any.
front(env_stack) == IF env_stack = <<>> THEN None ELSE Some(Head(env_stack))

\* with_current_environment: a clone of the front of the stack.
with_current_environment(host) == Head(host.env_stack)

\* handle_ret_with: Ok clears the pending trap, Err records its trap.
handle_ret_with(host, value) ==
    IF value.tag = "Ok" THEN [host EXCEPT !.last_trap = None]
    ELSE [host EXCEPT !.last_trap = Some(value.error)]

\* symbols::casper_return: the trap is recorded and the symbol returns.
casper_return(host, data) == [host EXCEPT !.last_trap = Some(NativeTrapReturn(data))]

\* Mutant: dispatch_with pushes the environment and keeps the pending trap.
dispatch_enter_KeepTrap(host, stub) == [host EXCEPT !.env_stack = <<stub>> \o @]

\* dispatch_with up to the call of f: push_front(stub), LAST_TRAP.take().
dispatch_enter(host, stub) ==
    [host EXCEPT !.env_stack = <<stub>> \o @, !.last_trap = None]

\* dispatch_with, what it returns once f has returned: Err(trap) if a trap is
\* set, Ok(result) otherwise.
dispatch_result(host) ==
    IF host.last_trap.some THEN Err(host.last_trap.v) ELSE Returned("unit")

\* dispatch_with after f: LAST_TRAP.take() and pop_front().
dispatch_leave(host) ==
    [host EXCEPT !.last_trap = None, !.env_stack = Tail(@)]

\* Environment::casper_call: the environment of the callee is a clone of the
\* current one with the input and the address of the call.
new_stub(host, address, input_data) ==
    [with_current_environment(host) EXCEPT !.input_data = Some(input_data),
                                           !.contract_address = Some(address)]

\* A running dispatch: its environment, the stack it found, and the history
\* of f so far: the number of host calls made and the trap of a casper_return
\* not followed by a successful host call or a nested dispatch.
Frame(stub, host) ==
    [stub |-> stub, depth |-> Len(host.env_stack), top |-> front(host.env_stack),
     recorded |-> None, calls |-> 0]

Dispatching == in_flight # <<>>

Innermost == in_flight[Len(in_flight)]

\* The frames with the innermost one changed by a host call.
AfterCall(recorded) ==
    [in_flight EXCEPT ![Len(in_flight)] =
        [@ EXCEPT !.recorded = recorded, !.calls = @ + 1]]

\* The dispatch that returned: its frame, what dispatch_with returned and the
\* stack it left.
Completed(frame, result, host) ==
    Some([stub |-> frame.stub, depth_before |-> frame.depth, top_before |-> frame.top,
          recorded |-> frame.recorded, result |-> result,
          depth_after |-> Len(host.env_stack), top_after |-> front(host.env_stack)])

InitHost ==
    /\ roots = {EmptyState}
    /\ protocol_data = [v \in Versions |-> NoProtocolData]
    /\ last = NewHost
    /\ in_flight = <<>>

\* dispatch_with(stub, f) is called by a test: f starts.
DispatchWith ==
    /\ ~Dispatching
    /\ \E stub \in Environments :
        /\ last' = dispatch_enter(last, stub)
        /\ in_flight' = <<Frame(stub, last)>>
    /\ UNCHANGED <<roots, protocol_data>>

\* f calls a host function that succeeds (casper_read, casper_write,
\* casper_print, ...): the symbol passes Ok to handle_ret.
HostCallSucceeds ==
    /\ Dispatching
    /\ Innermost.calls < MaxCalls
    /\ last' = handle_ret_with(last, Returned(0))
    /\ in_flight' = AfterCall(None)
    /\ UNCHANGED <<roots, protocol_data>>

\* f calls casper_return and goes on.
CasperReturn ==
    /\ Dispatching
    /\ Innermost.calls < MaxCalls
    /\ \E data \in ReturnData :
        /\ last' = casper_return(last, data)
        /\ in_flight' = AfterCall(Some(NativeTrapReturn(data)))
    /\ UNCHANGED <<roots, protocol_data>>

\* f calls casper_call: Environment::casper_call dispatches the entry point
\* with the new environment.
CasperCall ==
    /\ Dispatching
    /\ Innermost.calls < MaxCalls
    /\ Len(in_flight) < MaxDepth
    /\ \E address \in ContractAddresses :
        /\ last' = dispatch_enter(last, new_stub(last, address, "input"))
        /\ in_flight' = Append(AfterCall(None), Frame(new_stub(last, address, "input"), last))
    /\ UNCHANGED <<roots, protocol_data>>

\* f returns: dispatch_with returns its result; for an entry point called by
\* casper_call, Environment::casper_call turns it into Ok(0), which the
\* symbol passes to handle_ret.
FunctionReturns ==
    /\ Dispatching
    /\ last' =
        IF Len(in_flight) > 1
        THEN [handle_ret_with(dispatch_leave(last), Returned(0)) EXCEPT
                !.returned = Completed(Innermost, dispatch_result(last), dispatch_leave(last))]
        ELSE [dispatch_leave(last) EXCEPT
                !.returned = Completed(Innermost, dispatch_result(last), dispatch_leave(last))]
    /\ in_flight' = SubSeq(in_flight, 1, Len(in_flight) - 1)
    /\ UNCHANGED <<roots, protocol_data>>

NextHost == DispatchWith \/ HostCallSucceeds \/ CasperReturn \/ CasperCall \/ FunctionReturns

SpecHost == InitHost /\ [][NextHost]_vars

\* C39: while f runs under dispatch_with(env, f), env is the current
\* environment and sits on the stack the dispatch found, also under nested
\* dispatches of casper_call; when f has returned the stack has the depth and
\* the top it had before, and dispatch_with returned Err(trap) exactly when a
\* casper_return of f was followed by no successful host call and no nested
\* dispatch, with the trap of that casper_return.
C39_DispatchScopesEnvironmentAndTrap ==
    /\ Len(last.env_stack) = Len(in_flight)
    /\ \A j \in DOMAIN in_flight :
        /\ last.env_stack[Len(in_flight) - j + 1] = in_flight[j].stub
        /\ in_flight[j].depth = j - 1
        /\ in_flight[j].top = IF j = 1 THEN None ELSE Some(in_flight[j - 1].stub)
    /\ Dispatching =>
        /\ with_current_environment(last) = Innermost.stub
        /\ last.last_trap = Innermost.recorded
    /\ last.returned.some =>
        /\ last.returned.v.depth_after = last.returned.v.depth_before
        /\ last.returned.v.top_after = last.returned.v.top_before
        /\ last.returned.v.result.tag = "Err" <=> last.returned.v.recorded.some
        /\ last.returned.v.result.tag = "Err" =>
                last.returned.v.result.error = last.returned.v.recorded.v

C39_Witness ==
    /\ Dispatching
    /\ Len(in_flight) = 1
    /\ Innermost.calls = MaxCalls
    /\ last.returned.some
    /\ last.returned.v.depth_before = 1
    /\ last.returned.v.depth_after = 1
    /\ last.returned.v.top_after = Some(Innermost.stub)
    /\ last.returned.v.stub # Innermost.stub
    /\ last.returned.v.result = Err(NativeTrapReturn("r2"))
    /\ last.last_trap = None

\* A dispatch whose f called casper_return and then a host function returned
\* Ok; one whose f returned right after casper_return returned the trap.
TrapClearedReached ==
    /\ ~Dispatching
    /\ last.returned.some
    /\ last.returned.v.result.tag = "Ok"
    /\ last.env_stack = <<>>

TrapReportedReached ==
    /\ ~Dispatching
    /\ last.returned.some
    /\ last.returned.v.depth_before = 0
    /\ last.returned.v.result = Err(NativeTrapReturn("r1"))
    /\ last.env_stack = <<>>

====
